---------------------------- MODULE Spec2Model ----------------------------
(***************************************************************************)
(* Package bigfloat: the hypercomplex algebras Complex, Perplex, Infra     *)
(* (two big.Float components) and Hamilton, Cockle, Supra (two rank-1      *)
(* halves), with their in-place methods z.Op(args...).                     *)
(*                                                                         *)
(* Memory is a sequence of big.Float cells.  A rank-1 object at address p  *)
(* owns the cells p (field l) and p+1 (field r); a rank-2 object at p owns *)
(* the rank-1 objects p (field l) and p+2 (field r).  Every method is      *)
(* translated statement by statement into a chain of memory updates, so    *)
(* that a receiver that is the same object as an argument is the same      *)
(* cells.  new(T) appends zeroed cells; a method's locals are allocated    *)
(* together when it is entered.  A panic sets the panic flag of the memory *)
(* and every later write is skipped.                                       *)
(*                                                                         *)
(* big.Float is modelled as an exact rational <<numerator, denominator>>   *)
(* in lowest terms with a positive denominator (denominator 0 stands for   *)
(* an infinity); rounding and the sign of zero are not modelled.           *)
(***************************************************************************)
EXTENDS Integers, Sequences, FiniteSets, TLC

VARIABLES alg, heap, pre, call, panicked, ret

vars == <<alg, heap, pre, call, panicked, ret>>

\* Largest magnitude of an integer component drawn for an input value.
MaxS == 1

\* Number of basis elements the transforms' inputs are drawn from.
MaxUnits == 3

---------------------------------------------------------------------------
\* Exact scalars.

Abs(n) == IF n < 0 THEN -n ELSE n

Sgn(n) == IF n < 0 THEN -1 ELSE IF n > 0 THEN 1 ELSE 0

RECURSIVE GCD(_, _)
GCD(a, b) == IF b = 0 THEN a ELSE GCD(b, a % b)

Norm(n, d) ==
    IF d = 1 THEN <<n, 1>>
    ELSE IF d = 0 THEN <<Sgn(n), 0>>
    ELSE IF n = 0 THEN <<0, 1>>
    ELSE LET g == GCD(Abs(n), Abs(d))
             s == Sgn(d)
         IN  <<s * (n \div g), s * (d \div g)>>

Zero == <<0, 1>>

Int2Float(i) == <<i, 1>>

RatAdd(x, y) == Norm(x[1] * y[2] + y[1] * x[2], x[2] * y[2])
RatSub(x, y) == Norm(x[1] * y[2] - y[1] * x[2], x[2] * y[2])
RatMul(x, y) == Norm(x[1] * y[1], x[2] * y[2])
RatNeg(x)    == <<-x[1], x[2]>>
RatQuo(x, y) == Norm(x[1] * y[2], x[2] * y[1])
RatCmp(x, y) == Sgn(x[1] * y[2] - y[1] * x[2])

---------------------------------------------------------------------------
\* Memory and the big.Float methods the package calls.

Mem(cells) == [cell |-> cells, panic |-> FALSE, ret |-> FALSE]

\* new(T) for a T of n big.Float cells; the new object's address is Top(m).
Top(m) == Len(m.cell) + 1
New(m, n) == [m EXCEPT !.cell = @ \o [i \in 1..n |-> Zero]]

Panic(m) == [m EXCEPT !.panic = TRUE]
Return(m, v) == [m EXCEPT !.ret = v]

\* The one element of a singleton set.  A body written Only({e : m \in {m0}})
\* is e with the memory m0 it starts from computed once.
Only(S) == CHOOSE r \in S : TRUE

Store(m, z, v) == IF m.panic THEN m ELSE [m EXCEPT !.cell[z] = v]

\* Field addresses: struct { l, r big.Float } and struct { l, r <rank-1> }.
Fl(p) == p
Fr(p) == p + 1
Hl(p) == p
Hr(p) == p + 2

FloatCopy(m0, z, x) ==
    Only({Store(m, z, m.cell[x]) : m \in {m0}})
FloatNeg(m0, z, x) ==
    Only({Store(m, z, RatNeg(m.cell[x])) : m \in {m0}})
FloatAdd(m0, z, x, y) ==
    Only({Store(m, z, RatAdd(m.cell[x], m.cell[y])) : m \in {m0}})
FloatSub(m0, z, x, y) ==
    Only({Store(m, z, RatSub(m.cell[x], m.cell[y])) : m \in {m0}})
FloatMul(m0, z, x, y) ==
    Only({Store(m, z, RatMul(m.cell[x], m.cell[y])) : m \in {m0}})
\* Quo panics (ErrNaN) on 0/0 and Inf/Inf; x/0 is an infinity.
FloatQuo(m0, z, x, y) ==
    Only({IF \/ m.cell[x][1] = 0 /\ m.cell[y][1] = 0
             \/ m.cell[x][2] = 0 /\ m.cell[y][2] = 0
          THEN Panic(m)
          ELSE Store(m, z, RatQuo(m.cell[x], m.cell[y])) : m \in {m0}})
\* Cmp on a memory that has been computed.
FloatCmp(m, x, y) == RatCmp(m.cell[x], m.cell[y])


---------------------------------------------------------------------------
\* type Complex struct { l, r big.Float }

ComplexEquals(m0, z, y) ==
    Only({IF FloatCmp(m, Fl(z), Fl(y)) # 0 \/ FloatCmp(m, Fr(z), Fr(y)) # 0
          THEN Return(m, FALSE)
          ELSE Return(m, TRUE) : m \in {m0}})

ComplexCopy(m, z, y) ==
    LET m1 == FloatCopy(m, Fl(z), Fl(y))
    IN  FloatCopy(m1, Fr(z), Fr(y))

ComplexScal(m, z, y, a) ==
    LET m1 == FloatMul(m, Fl(z), Fl(y), a)
    IN  FloatMul(m1, Fr(z), Fr(y), a)

ComplexNeg(m, z, y) ==
    LET m1 == FloatNeg(m, Fl(z), Fl(y))
    IN  FloatNeg(m1, Fr(z), Fr(y))

ComplexConj(m, z, y) ==
    LET m1 == FloatCopy(m, Fl(z), Fl(y))
    IN  FloatNeg(m1, Fr(z), Fr(y))

ComplexAdd(m, z, x, y) ==
    LET m1 == FloatAdd(m, Fl(z), Fl(x), Fl(y))
    IN  FloatAdd(m1, Fr(z), Fr(x), Fr(y))

ComplexSub(m, z, x, y) ==
    LET m1 == FloatSub(m, Fl(z), Fl(x), Fl(y))
    IN  FloatSub(m1, Fr(z), Fr(x), Fr(y))

\* Mutant: the products are taken from x and y in place, with no copies.
ComplexMulInPlace(m0, z, x, y) ==
    Only({LET temp == Top(m)
              m6   == FloatMul(New(m, 1), Fl(z), Fl(x), Fl(y))
              m7   == FloatMul(m6, temp, Fr(y), Fr(x))
              m8   == FloatSub(m7, Fl(z), Fl(z), temp)
              m9   == FloatMul(m8, Fr(z), Fr(y), Fl(x))
              m10  == FloatMul(m9, temp, Fr(x), Fl(y))
          IN  FloatAdd(m10, Fr(z), Fr(z), temp) : m \in {m0}})

ComplexMul(m0, z, x, y) ==
    Only({LET a    == Top(m)
              b    == a + 1
              c    == a + 2
              d    == a + 3
              temp == a + 4
              m1   == FloatCopy(New(m, 5), a, Fl(x))
              m2   == FloatCopy(m1, b, Fr(x))
              m3   == FloatCopy(m2, c, Fl(y))
              m4   == FloatCopy(m3, d, Fr(y))
              m6   == FloatMul(m4, Fl(z), a, c)
              m7   == FloatMul(m6, temp, d, b)
              m8   == FloatSub(m7, Fl(z), Fl(z), temp)
              m9   == FloatMul(m8, Fr(z), d, a)
              m10  == FloatMul(m9, temp, b, c)
          IN  FloatAdd(m10, Fr(z), Fr(z), temp) : m \in {m0}})

\* The returned *big.Float is left in ret.
ComplexQuad(m0, z) ==
    Only({LET quad == Top(m)
              t    == quad + 1
              m1   == FloatMul(New(m, 2), quad, Fl(z), Fl(z))
              m2   == FloatMul(m1, t, Fr(z), Fr(z))
          IN  Return(FloatAdd(m2, quad, quad, t), quad) : m \in {m0}})

ComplexInv(m0, z, y) ==
    Only({LET zero == Top(m)
              n    == New(m, 2)
          IN  IF ComplexEquals(n, y, zero).ret
              THEN Panic(n)
              ELSE Only({LET quad == q.ret
                             m2   == ComplexConj(q, z, y)
                             m3   == FloatQuo(m2, Fl(z), Fl(z), quad)
                         IN  FloatQuo(m3, Fr(z), Fr(z), quad)
                         : q \in {ComplexQuad(n, y)}}) : m \in {m0}})

ComplexQuo(m0, z, x, y) ==
    Only({LET zero == Top(m)
              n    == New(m, 2)
          IN  IF ComplexEquals(n, y, zero).ret
              THEN Panic(n)
              ELSE Only({LET quad == q.ret
                             m2   == ComplexConj(q, z, y)
                             m3   == ComplexMul(m2, z, x, z)
                             m4   == FloatQuo(m3, Fl(z), Fl(z), quad)
                         IN  FloatQuo(m4, Fr(z), Fr(z), quad)
                         : q \in {ComplexQuad(n, y)}}) : m \in {m0}})

ComplexCrossRatio(m0, z, v, w, x, y) ==
    Only({LET temp == Top(m)
              m1   == ComplexSub(New(m, 2), z, w, x)
              m2   == ComplexInv(m1, z, z)
              m3   == ComplexSub(m2, temp, v, x)
              m4   == ComplexMul(m3, z, z, temp)
              m5   == ComplexSub(m4, temp, v, y)
              m6   == ComplexInv(m5, temp, temp)
              m7   == ComplexMul(m6, z, z, temp)
              m8   == ComplexSub(m7, temp, w, y)
          IN  ComplexMul(m8, z, z, temp) : m \in {m0}})

ComplexMobius(m0, z, y, a, b, c, d) ==
    Only({LET temp == Top(m)
              m1   == ComplexMul(New(m, 2), z, a, y)
              m2   == ComplexAdd(m1, z, z, b)
              m4   == ComplexMul(m2, temp, c, y)
              m5   == ComplexAdd(m4, temp, temp, d)
              m6   == ComplexInv(m5, temp, temp)
          IN  ComplexMul(m6, z, z, temp) : m \in {m0}})

---------------------------------------------------------------------------
\* type Perplex struct { l, r big.Float }

PerplexEquals(m0, z, y) ==
    Only({IF FloatCmp(m, Fl(z), Fl(y)) # 0 \/ FloatCmp(m, Fr(z), Fr(y)) # 0
          THEN Return(m, FALSE)
          ELSE Return(m, TRUE) : m \in {m0}})

PerplexCopy(m, z, y) ==
    LET m1 == FloatCopy(m, Fl(z), Fl(y))
    IN  FloatCopy(m1, Fr(z), Fr(y))

PerplexScal(m, z, y, a) ==
    LET m1 == FloatMul(m, Fl(z), Fl(y), a)
    IN  FloatMul(m1, Fr(z), Fr(y), a)

PerplexNeg(m, z, y) ==
    LET m1 == FloatNeg(m, Fl(z), Fl(y))
    IN  FloatNeg(m1, Fr(z), Fr(y))

PerplexConj(m, z, y) ==
    LET m1 == FloatCopy(m, Fl(z), Fl(y))
    IN  FloatNeg(m1, Fr(z), Fr(y))

PerplexAdd(m, z, x, y) ==
    LET m1 == FloatAdd(m, Fl(z), Fl(x), Fl(y))
    IN  FloatAdd(m1, Fr(z), Fr(x), Fr(y))

PerplexSub(m, z, x, y) ==
    LET m1 == FloatSub(m, Fl(z), Fl(x), Fl(y))
    IN  FloatSub(m1, Fr(z), Fr(x), Fr(y))

\* Mutant: the left half subtracts d.b, as Complex does.
PerplexMulMinus(m, z, x, y) == ComplexMul(m, z, x, y)

PerplexMul(m0, z, x, y) ==
    Only({LET a    == Top(m)
              b    == a + 1
              c    == a + 2
              d    == a + 3
              temp == a + 4
              m1   == FloatCopy(New(m, 5), a, Fl(x))
              m2   == FloatCopy(m1, b, Fr(x))
              m3   == FloatCopy(m2, c, Fl(y))
              m4   == FloatCopy(m3, d, Fr(y))
              m6   == FloatMul(m4, Fl(z), a, c)
              m7   == FloatMul(m6, temp, d, b)
              m8   == FloatAdd(m7, Fl(z), Fl(z), temp)
              m9   == FloatMul(m8, Fr(z), d, a)
              m10  == FloatMul(m9, temp, b, c)
          IN  FloatAdd(m10, Fr(z), Fr(z), temp) : m \in {m0}})

\* The returned *big.Float is left in ret.
PerplexQuad(m0, z) ==
    Only({LET quad == Top(m)
              t    == quad + 1
              m1   == FloatMul(New(m, 2), quad, Fl(z), Fl(z))
              m2   == FloatMul(m1, t, Fr(z), Fr(z))
          IN  Return(FloatSub(m2, quad, quad, t), quad) : m \in {m0}})

\* Mutant: only l = r is tested.
PerplexIsZeroDivPlus(m0, z) ==
    Only({Return(m, FloatCmp(m, Fl(z), Fr(z)) = 0) : m \in {m0}})

PerplexIsZeroDiv(m0, z) ==
    Only({IF FloatCmp(m, Fl(z), Fr(z)) = 0
          THEN Return(m, TRUE)
          ELSE LET t == Top(m)
               IN  Only({IF FloatCmp(m1, Fl(z), t) = 0
                         THEN Return(m1, TRUE)
                         ELSE Return(m1, FALSE)
                         : m1 \in {FloatNeg(New(m, 1), t, Fr(z))}}) : m \in {m0}})

\* Mutant: the guard and the quadrance are Complex's.
PerplexInvAsComplex(m, z, y) == ComplexInv(m, z, y)

PerplexInv(m0, z, y) ==
    Only({IF PerplexIsZeroDiv(m, y).ret
          THEN Panic(m)
          ELSE Only({LET quad == q.ret
                         m2   == PerplexConj(q, z, y)
                         m3   == FloatQuo(m2, Fl(z), Fl(z), quad)
                     IN  FloatQuo(m3, Fr(z), Fr(z), quad)
                     : q \in {PerplexQuad(m, y)}}) : m \in {m0}})

PerplexQuo(m0, z, x, y) ==
    Only({IF PerplexIsZeroDiv(m, y).ret
          THEN Panic(m)
          ELSE Only({LET quad == q.ret
                         m2   == PerplexConj(q, z, y)
                         m3   == PerplexMul(m2, z, x, z)
                         m4   == FloatQuo(m3, Fl(z), Fl(z), quad)
                     IN  FloatQuo(m4, Fr(z), Fr(z), quad)
                     : q \in {PerplexQuad(m, y)}}) : m \in {m0}})

PerplexCrossRatio(m0, z, v, w, x, y) ==
    Only({LET temp == Top(m)
              m1   == PerplexSub(New(m, 2), z, w, x)
              m2   == PerplexInv(m1, z, z)
              m3   == PerplexSub(m2, temp, v, x)
              m4   == PerplexMul(m3, z, z, temp)
              m5   == PerplexSub(m4, temp, v, y)
              m6   == PerplexInv(m5, temp, temp)
              m7   == PerplexMul(m6, z, z, temp)
              m8   == PerplexSub(m7, temp, w, y)
          IN  PerplexMul(m8, z, z, temp) : m \in {m0}})

PerplexMobius(m0, z, y, a, b, c, d) ==
    Only({LET temp == Top(m)
              m1   == PerplexMul(New(m, 2), z, a, y)
              m2   == PerplexAdd(m1, z, z, b)
              m4   == PerplexMul(m2, temp, c, y)
              m5   == PerplexAdd(m4, temp, temp, d)
              m6   == PerplexInv(m5, temp, temp)
          IN  PerplexMul(m6, z, z, temp) : m \in {m0}})

---------------------------------------------------------------------------
\* type Infra struct { l, r big.Float }

InfraEquals(m0, z, y) ==
    Only({IF FloatCmp(m, Fl(z), Fl(y)) # 0 \/ FloatCmp(m, Fr(z), Fr(y)) # 0
          THEN Return(m, FALSE)
          ELSE Return(m, TRUE) : m \in {m0}})

InfraCopy(m, z, y) ==
    LET m1 == FloatCopy(m, Fl(z), Fl(y))
    IN  FloatCopy(m1, Fr(z), Fr(y))

InfraScal(m, z, y, a) ==
    LET m1 == FloatMul(m, Fl(z), Fl(y), a)
    IN  FloatMul(m1, Fr(z), Fr(y), a)

InfraNeg(m, z, y) ==
    LET m1 == FloatNeg(m, Fl(z), Fl(y))
    IN  FloatNeg(m1, Fr(z), Fr(y))

InfraConj(m, z, y) ==
    LET m1 == FloatCopy(m, Fl(z), Fl(y))
    IN  FloatNeg(m1, Fr(z), Fr(y))

InfraAdd(m, z, x, y) ==
    LET m1 == FloatAdd(m, Fl(z), Fl(x), Fl(y))
    IN  FloatAdd(m1, Fr(z), Fr(x), Fr(y))

InfraSub(m, z, x, y) ==
    LET m1 == FloatSub(m, Fl(z), Fl(x), Fl(y))
    IN  FloatSub(m1, Fr(z), Fr(x), Fr(y))

\* Mutant: the right half is d.a alone, without b.c.
InfraMulOneSided(m0, z, x, y) ==
    Only({LET a    == Top(m)
              b    == a + 1
              c    == a + 2
              d    == a + 3
              m1   == FloatCopy(New(m, 5), a, Fl(x))
              m2   == FloatCopy(m1, b, Fr(x))
              m3   == FloatCopy(m2, c, Fl(y))
              m4   == FloatCopy(m3, d, Fr(y))
              m6   == FloatMul(m4, Fl(z), a, c)
          IN  FloatMul(m6, Fr(z), d, a) : m \in {m0}})

InfraMul(m0, z, x, y) ==
    Only({LET a    == Top(m)
              b    == a + 1
              c    == a + 2
              d    == a + 3
              temp == a + 4
              m1   == FloatCopy(New(m, 5), a, Fl(x))
              m2   == FloatCopy(m1, b, Fr(x))
              m3   == FloatCopy(m2, c, Fl(y))
              m4   == FloatCopy(m3, d, Fr(y))
              m6   == FloatMul(m4, Fl(z), a, c)
              m7   == FloatMul(m6, Fr(z), d, a)
              m8   == FloatMul(m7, temp, b, c)
          IN  FloatAdd(m8, Fr(z), Fr(z), temp) : m \in {m0}})

\* The returned *big.Float is left in ret.
InfraQuad(m0, z) ==
    Only({LET quad == Top(m)
          IN  Return(FloatMul(New(m, 1), quad, Fl(z), Fl(z)), quad) : m \in {m0}})

\* Mutant: the right half is compared with zero, not the left.
InfraIsZeroDivRight(m0, z) ==
    Only({Return(New(m, 1), FloatCmp(New(m, 1), Fr(z), Top(m)) = 0) : m \in {m0}})

InfraIsZeroDiv(m0, z) ==
    Only({LET zero == Top(m)
              n    == New(m, 1)
          IN  Return(n, FloatCmp(n, Fl(z), zero) = 0) : m \in {m0}})

InfraInv(m0, z, y) ==
    Only({IF InfraIsZeroDiv(m, y).ret
          THEN Panic(m)
          ELSE Only({LET quad == q.ret
                         m2   == InfraConj(q, z, y)
                         m3   == FloatQuo(m2, Fl(z), Fl(z), quad)
                     IN  FloatQuo(m3, Fr(z), Fr(z), quad)
                     : q \in {InfraQuad(m, y)}}) : m \in {m0}})

InfraQuo(m0, z, x, y) ==
    Only({IF InfraIsZeroDiv(m, y).ret
          THEN Panic(m)
          ELSE Only({LET quad == q.ret
                         m2   == InfraConj(q, z, y)
                         m3   == InfraMul(m2, z, x, z)
                         m4   == FloatQuo(m3, Fl(z), Fl(z), quad)
                     IN  FloatQuo(m4, Fr(z), Fr(z), quad)
                     : q \in {InfraQuad(m, y)}}) : m \in {m0}})

InfraCrossRatio(m0, z, v, w, x, y) ==
    Only({LET temp == Top(m)
              m1   == InfraSub(New(m, 2), z, w, x)
              m2   == InfraInv(m1, z, z)
              m3   == InfraSub(m2, temp, v, x)
              m4   == InfraMul(m3, z, z, temp)
              m5   == InfraSub(m4, temp, v, y)
              m6   == InfraInv(m5, temp, temp)
              m7   == InfraMul(m6, z, z, temp)
              m8   == InfraSub(m7, temp, w, y)
          IN  InfraMul(m8, z, z, temp) : m \in {m0}})

InfraMobius(m0, z, y, a, b, c, d) ==
    Only({LET temp == Top(m)
              m1   == InfraMul(New(m, 2), z, a, y)
              m2   == InfraAdd(m1, z, z, b)
              m4   == InfraMul(m2, temp, c, y)
              m5   == InfraAdd(m4, temp, temp, d)
              m6   == InfraInv(m5, temp, temp)
          IN  InfraMul(m6, z, z, temp) : m \in {m0}})

---------------------------------------------------------------------------
\* type Hamilton struct { l, r Complex }

HamiltonEquals(m0, z, y) ==
    Only({IF ~ComplexEquals(m, Hl(z), Hl(y)).ret \/ ~ComplexEquals(m, Hr(z), Hr(y)).ret
          THEN Return(m, FALSE)
          ELSE Return(m, TRUE) : m \in {m0}})

HamiltonCopy(m, z, y) ==
    LET m1 == ComplexCopy(m, Hl(z), Hl(y))
    IN  ComplexCopy(m1, Hr(z), Hr(y))

HamiltonScal(m, z, y, a) ==
    LET m1 == ComplexScal(m, Hl(z), Hl(y), a)
    IN  ComplexScal(m1, Hr(z), Hr(y), a)

\* Mutant: y is negated in place and then copied onto z.
HamiltonNegInPlace(m, z, y) ==
    LET m1 == ComplexNeg(m, Hl(y), Hl(y))
        m2 == ComplexNeg(m1, Hr(y), Hr(y))
    IN  HamiltonCopy(m2, z, y)

HamiltonNeg(m, z, y) ==
    LET m1 == ComplexNeg(m, Hl(z), Hl(y))
    IN  ComplexNeg(m1, Hr(z), Hr(y))

\* Mutant: y is copied, nothing negated.
HamiltonConjNone(m, z, y) == HamiltonCopy(m, z, y)

HamiltonConj(m, z, y) ==
    LET m1 == ComplexConj(m, Hl(z), Hl(y))
    IN  ComplexNeg(m1, Hr(z), Hr(y))

HamiltonAdd(m, z, x, y) ==
    LET m1 == ComplexAdd(m, Hl(z), Hl(x), Hl(y))
    IN  ComplexAdd(m1, Hr(z), Hr(x), Hr(y))

HamiltonSub(m, z, x, y) ==
    LET m1 == ComplexSub(m, Hl(z), Hl(x), Hl(y))
    IN  ComplexSub(m1, Hr(z), Hr(x), Hr(y))

\* Mutant: the right half is d.a alone, without b.Conj(c).
HamiltonMulRightShort(m0, z, x, y) ==
    Only({LET a    == Top(m)
              b    == a + 2
              c    == a + 4
              d    == a + 6
              temp == a + 8
              m1   == ComplexCopy(New(m, 10), a, Hl(x))
              m2   == ComplexCopy(m1, b, Hr(x))
              m3   == ComplexCopy(m2, c, Hl(y))
              m4   == ComplexCopy(m3, d, Hr(y))
              m6   == ComplexMul(m4, Hl(z), a, c)
              m8   == ComplexMul(m6, temp, d, b)
              m9   == ComplexSub(m8, Hl(z), Hl(z), temp)
          IN  ComplexMul(m9, Hr(z), d, a) : m \in {m0}})

\* Mutant: the left half's second product taken with d, not Conj(d).
HamiltonMulNoConj(m0, z, x, y) ==
    Only({LET a    == Top(m)
              b    == a + 2
              c    == a + 4
              d    == a + 6
              temp == a + 8
              m1   == ComplexCopy(New(m, 10), a, Hl(x))
              m2   == ComplexCopy(m1, b, Hr(x))
              m3   == ComplexCopy(m2, c, Hl(y))
              m4   == ComplexCopy(m3, d, Hr(y))
              m6   == ComplexMul(m4, Hl(z), a, c)
              m8   == ComplexMul(m6, temp, d, b)
              m9   == ComplexSub(m8, Hl(z), Hl(z), temp)
              m10  == ComplexMul(m9, Hr(z), d, a)
              m11  == ComplexConj(m10, temp, c)
              m12  == ComplexMul(m11, temp, b, temp)
          IN  ComplexAdd(m12, Hr(z), Hr(z), temp) : m \in {m0}})

HamiltonMul(m0, z, x, y) ==
    Only({LET a    == Top(m)
              b    == a + 2
              c    == a + 4
              d    == a + 6
              temp == a + 8
              m1   == ComplexCopy(New(m, 10), a, Hl(x))
              m2   == ComplexCopy(m1, b, Hr(x))
              m3   == ComplexCopy(m2, c, Hl(y))
              m4   == ComplexCopy(m3, d, Hr(y))
              m6   == ComplexMul(m4, Hl(z), a, c)
              m7   == ComplexConj(m6, temp, d)
              m8   == ComplexMul(m7, temp, temp, b)
              m9   == ComplexSub(m8, Hl(z), Hl(z), temp)
              m10  == ComplexMul(m9, Hr(z), d, a)
              m11  == ComplexConj(m10, temp, c)
              m12  == ComplexMul(m11, temp, b, temp)
          IN  ComplexAdd(m12, Hr(z), Hr(z), temp) : m \in {m0}})

HamiltonCommutator(m0, z, x, y) ==
    Only({LET t  == Top(m)
              m1 == HamiltonMul(New(m, 4), z, x, y)
              m2 == HamiltonMul(m1, t, y, x)
          IN  HamiltonSub(m2, z, z, t) : m \in {m0}})

\* Mutant: the halves' quadrances are subtracted, as Cockle does.
HamiltonQuadMinus(m0, z) ==
    Only({Only({Only({Return(FloatSub(q2, Top(m), q1.ret, q2.ret), Top(m))
                      : q2 \in {ComplexQuad(q1, Hr(z))}})
                : q1 \in {ComplexQuad(New(m, 1), Hl(z))}}) : m \in {m0}})

\* The returned *big.Float is left in ret.
HamiltonQuad(m0, z) ==
    Only({Only({Only({Return(FloatAdd(q2, Top(m), q1.ret, q2.ret), Top(m))
                      : q2 \in {ComplexQuad(q1, Hr(z))}})
                : q1 \in {ComplexQuad(New(m, 1), Hl(z))}}) : m \in {m0}})

\* Mutant: the last component is left undivided.
HamiltonInvShort(m0, z, y) ==
    Only({LET zero == Top(m)
              n    == New(m, 4)
          IN  IF HamiltonEquals(n, y, zero).ret
              THEN Panic(n)
              ELSE Only({LET quad == q.ret
                             m2   == HamiltonConj(q, z, y)
                             m3   == FloatQuo(m2, Fl(Hl(z)), Fl(Hl(z)), quad)
                             m4   == FloatQuo(m3, Fr(Hl(z)), Fr(Hl(z)), quad)
                         IN  FloatQuo(m4, Fl(Hr(z)), Fl(Hr(z)), quad)
                         : q \in {HamiltonQuad(n, y)}}) : m \in {m0}})

HamiltonInv(m0, z, y) ==
    Only({LET zero == Top(m)
              n    == New(m, 4)
          IN  IF HamiltonEquals(n, y, zero).ret
              THEN Panic(n)
              ELSE Only({LET quad == q.ret
                             m2   == HamiltonConj(q, z, y)
                             m3   == FloatQuo(m2, Fl(Hl(z)), Fl(Hl(z)), quad)
                             m4   == FloatQuo(m3, Fr(Hl(z)), Fr(Hl(z)), quad)
                             m5   == FloatQuo(m4, Fl(Hr(z)), Fl(Hr(z)), quad)
                         IN  FloatQuo(m5, Fr(Hr(z)), Fr(Hr(z)), quad)
                         : q \in {HamiltonQuad(n, y)}}) : m \in {m0}})

HamiltonQuoL(m0, z, x, y) ==
    Only({LET zero == Top(m)
              n    == New(m, 4)
          IN  IF HamiltonEquals(n, y, zero).ret
              THEN Panic(n)
              ELSE Only({LET quad == q.ret
                             m2   == HamiltonConj(q, z, y)
                             m3   == HamiltonMul(m2, z, z, x)
                             m4   == FloatQuo(m3, Fl(Hl(z)), Fl(Hl(z)), quad)
                             m5   == FloatQuo(m4, Fr(Hl(z)), Fr(Hl(z)), quad)
                             m6   == FloatQuo(m5, Fl(Hr(z)), Fl(Hr(z)), quad)
                         IN  FloatQuo(m6, Fr(Hr(z)), Fr(Hr(z)), quad)
                         : q \in {HamiltonQuad(n, y)}}) : m \in {m0}})

\* Mutant: the factors in QuoL's order.
HamiltonQuoRSwapped(m, z, x, y) == HamiltonQuoL(m, z, x, y)

HamiltonQuoR(m0, z, x, y) ==
    Only({LET zero == Top(m)
              n    == New(m, 4)
          IN  IF HamiltonEquals(n, y, zero).ret
              THEN Panic(n)
              ELSE Only({LET quad == q.ret
                             m2   == HamiltonConj(q, z, y)
                             m3   == HamiltonMul(m2, z, x, z)
                             m4   == FloatQuo(m3, Fl(Hl(z)), Fl(Hl(z)), quad)
                             m5   == FloatQuo(m4, Fr(Hl(z)), Fr(Hl(z)), quad)
                             m6   == FloatQuo(m5, Fl(Hr(z)), Fl(Hr(z)), quad)
                         IN  FloatQuo(m6, Fr(Hr(z)), Fr(Hr(z)), quad)
                         : q \in {HamiltonQuad(n, y)}}) : m \in {m0}})

HamiltonCrossRatioL(m0, z, v, w, x, y) ==
    Only({LET temp == Top(m)
              m1   == HamiltonSub(New(m, 4), z, w, x)
              m2   == HamiltonInv(m1, z, z)
              m3   == HamiltonSub(m2, temp, v, x)
              m4   == HamiltonMul(m3, z, z, temp)
              m5   == HamiltonSub(m4, temp, v, y)
              m6   == HamiltonInv(m5, temp, temp)
              m7   == HamiltonMul(m6, z, z, temp)
              m8   == HamiltonSub(m7, temp, w, y)
          IN  HamiltonMul(m8, z, z, temp) : m \in {m0}})

\* Mutant: the factors in CrossRatioL's order.
HamiltonCrossRatioRAsL(m, z, v, w, x, y) == HamiltonCrossRatioL(m, z, v, w, x, y)

HamiltonCrossRatioR(m0, z, v, w, x, y) ==
    Only({LET temp == Top(m)
              m1   == HamiltonSub(New(m, 4), z, v, x)
              m2   == HamiltonSub(m1, temp, w, x)
              m3   == HamiltonInv(m2, temp, temp)
              m4   == HamiltonMul(m3, z, z, temp)
              m5   == HamiltonSub(m4, temp, w, y)
              m6   == HamiltonMul(m5, z, z, temp)
              m7   == HamiltonSub(m6, temp, v, y)
              m8   == HamiltonInv(m7, temp, temp)
          IN  HamiltonMul(m8, z, z, temp) : m \in {m0}})

HamiltonMobiusL(m0, z, y, a, b, c, d) ==
    Only({LET temp == Top(m)
              m1   == HamiltonMul(New(m, 4), z, y, a)
              m2   == HamiltonAdd(m1, z, z, b)
              m4   == HamiltonMul(m2, temp, y, c)
              m5   == HamiltonAdd(m4, temp, temp, d)
              m6   == HamiltonInv(m5, temp, temp)
          IN  HamiltonMul(m6, z, temp, z) : m \in {m0}})

\* Mutant: the factors in MobiusL's order.
HamiltonMobiusRAsL(m, z, y, a, b, c, d) == HamiltonMobiusL(m, z, y, a, b, c, d)

HamiltonMobiusR(m0, z, y, a, b, c, d) ==
    Only({LET temp == Top(m)
              m1   == HamiltonMul(New(m, 4), z, a, y)
              m2   == HamiltonAdd(m1, z, z, b)
              m4   == HamiltonMul(m2, temp, c, y)
              m5   == HamiltonAdd(m4, temp, temp, d)
              m6   == HamiltonInv(m5, temp, temp)
          IN  HamiltonMul(m6, z, z, temp) : m \in {m0}})

---------------------------------------------------------------------------
\* type Cockle struct { l, r Complex }

CockleEquals(m0, z, y) ==
    Only({IF ~ComplexEquals(m, Hl(z), Hl(y)).ret \/ ~ComplexEquals(m, Hr(z), Hr(y)).ret
          THEN Return(m, FALSE)
          ELSE Return(m, TRUE) : m \in {m0}})

CockleCopy(m, z, y) ==
    LET m1 == ComplexCopy(m, Hl(z), Hl(y))
    IN  ComplexCopy(m1, Hr(z), Hr(y))

CockleScal(m, z, y, a) ==
    LET m1 == ComplexScal(m, Hl(z), Hl(y), a)
    IN  ComplexScal(m1, Hr(z), Hr(y), a)

CockleNeg(m, z, y) ==
    LET m1 == ComplexNeg(m, Hl(z), Hl(y))
    IN  ComplexNeg(m1, Hr(z), Hr(y))

\* Mutant: the right half is conjugated, not negated.
CockleConjBoth(m, z, y) ==
    LET m1 == ComplexConj(m, Hl(z), Hl(y))
    IN  ComplexConj(m1, Hr(z), Hr(y))

CockleConj(m, z, y) ==
    LET m1 == ComplexConj(m, Hl(z), Hl(y))
    IN  ComplexNeg(m1, Hr(z), Hr(y))

CockleAdd(m, z, x, y) ==
    LET m1 == ComplexAdd(m, Hl(z), Hl(x), Hl(y))
    IN  ComplexAdd(m1, Hr(z), Hr(x), Hr(y))

CockleSub(m, z, x, y) ==
    LET m1 == ComplexSub(m, Hl(z), Hl(x), Hl(y))
    IN  ComplexSub(m1, Hr(z), Hr(x), Hr(y))

\* Mutant: the left half subtracts Conj(d).b, as Hamilton does.
CockleMulMinus(m, z, x, y) == HamiltonMul(m, z, x, y)

CockleMul(m0, z, x, y) ==
    Only({LET a    == Top(m)
              b    == a + 2
              c    == a + 4
              d    == a + 6
              temp == a + 8
              m1   == ComplexCopy(New(m, 10), a, Hl(x))
              m2   == ComplexCopy(m1, b, Hr(x))
              m3   == ComplexCopy(m2, c, Hl(y))
              m4   == ComplexCopy(m3, d, Hr(y))
              m6   == ComplexMul(m4, Hl(z), a, c)
              m7   == ComplexConj(m6, temp, d)
              m8   == ComplexMul(m7, temp, temp, b)
              m9   == ComplexAdd(m8, Hl(z), Hl(z), temp)
              m10  == ComplexMul(m9, Hr(z), d, a)
              m11  == ComplexConj(m10, temp, c)
              m12  == ComplexMul(m11, temp, b, temp)
          IN  ComplexAdd(m12, Hr(z), Hr(z), temp) : m \in {m0}})

CockleCommutator(m0, z, x, y) ==
    Only({LET t  == Top(m)
              m1 == CockleMul(New(m, 4), z, x, y)
              m2 == CockleMul(m1, t, y, x)
          IN  CockleSub(m2, z, z, t) : m \in {m0}})

\* Mutant: the halves' quadrances are added, as Hamilton does.
CockleQuadPlus(m, z) == HamiltonQuad(m, z)

\* The returned *big.Float is left in ret.
CockleQuad(m0, z) ==
    Only({Only({Only({Return(FloatSub(q2, Top(m), q1.ret, q2.ret), Top(m))
                      : q2 \in {ComplexQuad(q1, Hr(z))}})
                : q1 \in {ComplexQuad(New(m, 1), Hl(z))}}) : m \in {m0}})

CockleIsZeroDiv(m0, z) ==
    Only({Only({Return(q2, FloatCmp(q2, q1.ret, q2.ret) = 0)
                : q2 \in {ComplexQuad(q1, Hr(z))}})
          : q1 \in {ComplexQuad(m0, Hl(z))}})

\* Mutant: the guard is the zero value, as in Hamilton, not IsZeroDiv.
CockleInvZeroGuard(m0, z, y) ==
    Only({LET zero == Top(m)
              n    == New(m, 4)
          IN  IF CockleEquals(n, y, zero).ret
              THEN Panic(n)
              ELSE Only({LET quad == q.ret
                             m2   == CockleConj(q, z, y)
                             m3   == FloatQuo(m2, Fl(Hl(z)), Fl(Hl(z)), quad)
                             m4   == FloatQuo(m3, Fr(Hl(z)), Fr(Hl(z)), quad)
                             m5   == FloatQuo(m4, Fl(Hr(z)), Fl(Hr(z)), quad)
                         IN  FloatQuo(m5, Fr(Hr(z)), Fr(Hr(z)), quad)
                         : q \in {CockleQuad(n, y)}}) : m \in {m0}})

CockleInv(m0, z, y) ==
    Only({IF CockleIsZeroDiv(m, y).ret
          THEN Panic(m)
          ELSE Only({LET quad == q.ret
                         m2   == CockleConj(q, z, y)
                         m3   == FloatQuo(m2, Fl(Hl(z)), Fl(Hl(z)), quad)
                         m4   == FloatQuo(m3, Fr(Hl(z)), Fr(Hl(z)), quad)
                         m5   == FloatQuo(m4, Fl(Hr(z)), Fl(Hr(z)), quad)
                     IN  FloatQuo(m5, Fr(Hr(z)), Fr(Hr(z)), quad)
                     : q \in {CockleQuad(m, y)}}) : m \in {m0}})

CockleQuoL(m0, z, x, y) ==
    Only({IF CockleIsZeroDiv(m, y).ret
          THEN Panic(m)
          ELSE Only({LET quad == q.ret
                         m2   == CockleConj(q, z, y)
                         m3   == CockleMul(m2, z, z, x)
                         m4   == FloatQuo(m3, Fl(Hl(z)), Fl(Hl(z)), quad)
                         m5   == FloatQuo(m4, Fr(Hl(z)), Fr(Hl(z)), quad)
                         m6   == FloatQuo(m5, Fl(Hr(z)), Fl(Hr(z)), quad)
                     IN  FloatQuo(m6, Fr(Hr(z)), Fr(Hr(z)), quad)
                     : q \in {CockleQuad(m, y)}}) : m \in {m0}})

CockleQuoR(m0, z, x, y) ==
    Only({IF CockleIsZeroDiv(m, y).ret
          THEN Panic(m)
          ELSE Only({LET quad == q.ret
                         m2   == CockleConj(q, z, y)
                         m3   == CockleMul(m2, z, x, z)
                         m4   == FloatQuo(m3, Fl(Hl(z)), Fl(Hl(z)), quad)
                         m5   == FloatQuo(m4, Fr(Hl(z)), Fr(Hl(z)), quad)
                         m6   == FloatQuo(m5, Fl(Hr(z)), Fl(Hr(z)), quad)
                     IN  FloatQuo(m6, Fr(Hr(z)), Fr(Hr(z)), quad)
                     : q \in {CockleQuad(m, y)}}) : m \in {m0}})

CockleCrossRatioL(m0, z, v, w, x, y) ==
    Only({LET temp == Top(m)
              m1   == CockleSub(New(m, 4), z, w, x)
              m2   == CockleInv(m1, z, z)
              m3   == CockleSub(m2, temp, v, x)
              m4   == CockleMul(m3, z, z, temp)
              m5   == CockleSub(m4, temp, v, y)
              m6   == CockleInv(m5, temp, temp)
              m7   == CockleMul(m6, z, z, temp)
              m8   == CockleSub(m7, temp, w, y)
          IN  CockleMul(m8, z, z, temp) : m \in {m0}})

CockleCrossRatioR(m0, z, v, w, x, y) ==
    Only({LET temp == Top(m)
              m1   == CockleSub(New(m, 4), z, v, x)
              m2   == CockleSub(m1, temp, w, x)
              m3   == CockleInv(m2, temp, temp)
              m4   == CockleMul(m3, z, z, temp)
              m5   == CockleSub(m4, temp, w, y)
              m6   == CockleMul(m5, z, z, temp)
              m7   == CockleSub(m6, temp, v, y)
              m8   == CockleInv(m7, temp, temp)
          IN  CockleMul(m8, z, z, temp) : m \in {m0}})

CockleMobiusL(m0, z, y, a, b, c, d) ==
    Only({LET temp == Top(m)
              m1   == CockleMul(New(m, 4), z, y, a)
              m2   == CockleAdd(m1, z, z, b)
              m4   == CockleMul(m2, temp, y, c)
              m5   == CockleAdd(m4, temp, temp, d)
              m6   == CockleInv(m5, temp, temp)
          IN  CockleMul(m6, z, temp, z) : m \in {m0}})

CockleMobiusR(m0, z, y, a, b, c, d) ==
    Only({LET temp == Top(m)
              m1   == CockleMul(New(m, 4), z, a, y)
              m2   == CockleAdd(m1, z, z, b)
              m4   == CockleMul(m2, temp, c, y)
              m5   == CockleAdd(m4, temp, temp, d)
              m6   == CockleInv(m5, temp, temp)
          IN  CockleMul(m6, z, z, temp) : m \in {m0}})

---------------------------------------------------------------------------
\* type Supra struct { l, r Infra }

SupraEquals(m0, z, y) ==
    Only({IF ~InfraEquals(m, Hl(z), Hl(y)).ret \/ ~InfraEquals(m, Hr(z), Hr(y)).ret
          THEN Return(m, FALSE)
          ELSE Return(m, TRUE) : m \in {m0}})

SupraCopy(m, z, y) ==
    LET m1 == InfraCopy(m, Hl(z), Hl(y))
    IN  InfraCopy(m1, Hr(z), Hr(y))

SupraScal(m, z, y, a) ==
    LET m1 == InfraScal(m, Hl(z), Hl(y), a)
    IN  InfraScal(m1, Hr(z), Hr(y), a)

SupraNeg(m, z, y) ==
    LET m1 == InfraNeg(m, Hl(z), Hl(y))
    IN  InfraNeg(m1, Hr(z), Hr(y))

SupraConj(m, z, y) ==
    LET m1 == InfraConj(m, Hl(z), Hl(y))
    IN  InfraNeg(m1, Hr(z), Hr(y))

SupraAdd(m, z, x, y) ==
    LET m1 == InfraAdd(m, Hl(z), Hl(x), Hl(y))
    IN  InfraAdd(m1, Hr(z), Hr(x), Hr(y))

SupraSub(m, z, x, y) ==
    LET m1 == InfraSub(m, Hl(z), Hl(x), Hl(y))
    IN  InfraSub(m1, Hr(z), Hr(x), Hr(y))

SupraMul(m0, z, x, y) ==
    Only({LET a    == Top(m)
              b    == a + 2
              c    == a + 4
              d    == a + 6
              temp == a + 8
              m1   == InfraCopy(New(m, 10), a, Hl(x))
              m2   == InfraCopy(m1, b, Hr(x))
              m3   == InfraCopy(m2, c, Hl(y))
              m4   == InfraCopy(m3, d, Hr(y))
              m6   == InfraMul(m4, Hl(z), a, c)
              m7   == InfraMul(m6, Hr(z), d, a)
              m8   == InfraConj(m7, temp, c)
              m9   == InfraMul(m8, temp, b, temp)
          IN  InfraAdd(m9, Hr(z), Hr(z), temp) : m \in {m0}})

\* Mutant: the second product has the factors in the first one's order.
SupraCommutatorSame(m0, z, x, y) ==
    Only({LET t  == Top(m)
              m1 == SupraMul(New(m, 4), z, x, y)
              m2 == SupraMul(m1, t, x, y)
          IN  SupraSub(m2, z, z, t) : m \in {m0}})

SupraCommutator(m0, z, x, y) ==
    Only({LET t  == Top(m)
              m1 == SupraMul(New(m, 4), z, x, y)
              m2 == SupraMul(m1, t, y, x)
          IN  SupraSub(m2, z, z, t) : m \in {m0}})

\* The returned *big.Float is left in ret.
SupraQuad(m, z) == InfraQuad(m, Hl(z))

SupraIsZeroDiv(m, z) == InfraIsZeroDiv(m, Hl(z))

SupraInv(m0, z, y) ==
    Only({IF SupraIsZeroDiv(m, y).ret
          THEN Panic(m)
          ELSE Only({LET quad == q.ret
                         m2   == SupraConj(q, z, y)
                         m3   == FloatQuo(m2, Fl(Hl(z)), Fl(Hl(z)), quad)
                         m4   == FloatQuo(m3, Fr(Hl(z)), Fr(Hl(z)), quad)
                         m5   == FloatQuo(m4, Fl(Hr(z)), Fl(Hr(z)), quad)
                     IN  FloatQuo(m5, Fr(Hr(z)), Fr(Hr(z)), quad)
                     : q \in {SupraQuad(m, y)}}) : m \in {m0}})

SupraQuoL(m0, z, x, y) ==
    Only({IF SupraIsZeroDiv(m, y).ret
          THEN Panic(m)
          ELSE Only({LET quad == q.ret
                         m2   == SupraConj(q, z, y)
                         m3   == SupraMul(m2, z, z, x)
                         m4   == FloatQuo(m3, Fl(Hl(z)), Fl(Hl(z)), quad)
                         m5   == FloatQuo(m4, Fr(Hl(z)), Fr(Hl(z)), quad)
                         m6   == FloatQuo(m5, Fl(Hr(z)), Fl(Hr(z)), quad)
                     IN  FloatQuo(m6, Fr(Hr(z)), Fr(Hr(z)), quad)
                     : q \in {SupraQuad(m, y)}}) : m \in {m0}})

SupraQuoR(m0, z, x, y) ==
    Only({IF SupraIsZeroDiv(m, y).ret
          THEN Panic(m)
          ELSE Only({LET quad == q.ret
                         m2   == SupraConj(q, z, y)
                         m3   == SupraMul(m2, z, x, z)
                         m4   == FloatQuo(m3, Fl(Hl(z)), Fl(Hl(z)), quad)
                         m5   == FloatQuo(m4, Fr(Hl(z)), Fr(Hl(z)), quad)
                         m6   == FloatQuo(m5, Fl(Hr(z)), Fl(Hr(z)), quad)
                     IN  FloatQuo(m6, Fr(Hr(z)), Fr(Hr(z)), quad)
                     : q \in {SupraQuad(m, y)}}) : m \in {m0}})

SupraCrossFloatioL(m0, z, v, w, x, y) ==
    Only({LET temp == Top(m)
              m1   == SupraSub(New(m, 4), z, w, x)
              m2   == SupraInv(m1, z, z)
              m3   == SupraSub(m2, temp, v, x)
              m4   == SupraMul(m3, z, z, temp)
              m5   == SupraSub(m4, temp, v, y)
              m6   == SupraInv(m5, temp, temp)
              m7   == SupraMul(m6, z, z, temp)
              m8   == SupraSub(m7, temp, w, y)
          IN  SupraMul(m8, z, z, temp) : m \in {m0}})

SupraCrossFloatioR(m0, z, v, w, x, y) ==
    Only({LET temp == Top(m)
              m1   == SupraSub(New(m, 4), z, v, x)
              m2   == SupraSub(m1, temp, w, x)
              m3   == SupraInv(m2, temp, temp)
              m4   == SupraMul(m3, z, z, temp)
              m5   == SupraSub(m4, temp, w, y)
              m6   == SupraMul(m5, z, z, temp)
              m7   == SupraSub(m6, temp, v, y)
              m8   == SupraInv(m7, temp, temp)
          IN  SupraMul(m8, z, z, temp) : m \in {m0}})

SupraMobiusL(m0, z, y, a, b, c, d) ==
    Only({LET temp == Top(m)
              m1   == SupraMul(New(m, 4), z, y, a)
              m2   == SupraAdd(m1, z, z, b)
              m4   == SupraMul(m2, temp, y, c)
              m5   == SupraAdd(m4, temp, temp, d)
              m6   == SupraInv(m5, temp, temp)
          IN  SupraMul(m6, z, temp, z) : m \in {m0}})

SupraMobiusR(m0, z, y, a, b, c, d) ==
    Only({LET temp == Top(m)
              m1   == SupraMul(New(m, 4), z, a, y)
              m2   == SupraAdd(m1, z, z, b)
              m4   == SupraMul(m2, temp, c, y)
              m5   == SupraAdd(m4, temp, temp, d)
              m6   == SupraInv(m5, temp, temp)
          IN  SupraMul(m6, z, z, temp) : m \in {m0}})

---------------------------------------------------------------------------
\* The program state: one algebra's objects, and the last method call.

Rank1 == {"Complex", "Perplex", "Infra"}
Rank2 == {"Hamilton", "Cockle", "Supra"}
Algebras == Rank1 \cup Rank2

\* Number of big.Float cells of a value of algebra a.
W(a) == IF a \in Rank1 THEN 2 ELSE 4

\* Objects 1 and 2 are built by New<T>(...) from drawn components; object 3
\* is new(T), the zero value.
InputRegs == {1, 2}
Regs == {1, 2, 3}

Addr(r) == (r - 1) * W(alg) + 1

Scalars(a) ==
    IF a \in Rank1 THEN {Int2Float(i) : i \in (-MaxS)..MaxS}
    ELSE {Int2Float(i) : i \in 0..MaxS}

Vals(a) == [1..W(a) -> Scalars(a)]

ZeroVal(a) == [i \in 1..W(a) |-> Zero]

NoCall == [op |-> "none", z |-> 0, args |-> <<>>, k |-> Zero]

Init ==
    /\ alg \in Algebras
    /\ \E v1, v2 \in Vals(alg) : heap = v1 \o v2 \o ZeroVal(alg)
    /\ pre = heap
    /\ call = NoCall
    /\ panicked = FALSE
    /\ ret = <<>>

\* Static dispatch on the objects' type T.
Neg(T, m, z, y) ==
    CASE T = "Complex"  -> ComplexNeg(m, z, y)
      [] T = "Perplex"  -> PerplexNeg(m, z, y)
      [] T = "Infra"    -> InfraNeg(m, z, y)
      [] T = "Hamilton" -> HamiltonNeg(m, z, y)
      [] T = "Cockle"   -> CockleNeg(m, z, y)
      [] T = "Supra"    -> SupraNeg(m, z, y)

Conj(T, m, z, y) ==
    CASE T = "Complex"  -> ComplexConj(m, z, y)
      [] T = "Perplex"  -> PerplexConj(m, z, y)
      [] T = "Infra"    -> InfraConj(m, z, y)
      [] T = "Hamilton" -> HamiltonConj(m, z, y)
      [] T = "Cockle"   -> CockleConj(m, z, y)
      [] T = "Supra"    -> SupraConj(m, z, y)

Scal(T, m, z, y, a) ==
    CASE T = "Complex"  -> ComplexScal(m, z, y, a)
      [] T = "Perplex"  -> PerplexScal(m, z, y, a)
      [] T = "Infra"    -> InfraScal(m, z, y, a)
      [] T = "Hamilton" -> HamiltonScal(m, z, y, a)
      [] T = "Cockle"   -> CockleScal(m, z, y, a)
      [] T = "Supra"    -> SupraScal(m, z, y, a)

Add(T, m, z, x, y) ==
    CASE T = "Complex"  -> ComplexAdd(m, z, x, y)
      [] T = "Perplex"  -> PerplexAdd(m, z, x, y)
      [] T = "Infra"    -> InfraAdd(m, z, x, y)
      [] T = "Hamilton" -> HamiltonAdd(m, z, x, y)
      [] T = "Cockle"   -> CockleAdd(m, z, x, y)
      [] T = "Supra"    -> SupraAdd(m, z, x, y)

Sub(T, m, z, x, y) ==
    CASE T = "Complex"  -> ComplexSub(m, z, x, y)
      [] T = "Perplex"  -> PerplexSub(m, z, x, y)
      [] T = "Infra"    -> InfraSub(m, z, x, y)
      [] T = "Hamilton" -> HamiltonSub(m, z, x, y)
      [] T = "Cockle"   -> CockleSub(m, z, x, y)
      [] T = "Supra"    -> SupraSub(m, z, x, y)

Mul(T, m, z, x, y) ==
    CASE T = "Complex"  -> ComplexMul(m, z, x, y)
      [] T = "Perplex"  -> PerplexMul(m, z, x, y)
      [] T = "Infra"    -> InfraMul(m, z, x, y)
      [] T = "Hamilton" -> HamiltonMul(m, z, x, y)
      [] T = "Cockle"   -> CockleMul(m, z, x, y)
      [] T = "Supra"    -> SupraMul(m, z, x, y)

Quad(T, m, z) ==
    CASE T = "Complex"  -> ComplexQuad(m, z)
      [] T = "Perplex"  -> PerplexQuad(m, z)
      [] T = "Infra"    -> InfraQuad(m, z)
      [] T = "Hamilton" -> HamiltonQuad(m, z)
      [] T = "Cockle"   -> CockleQuad(m, z)
      [] T = "Supra"    -> SupraQuad(m, z)

IsZeroDiv(T, m, z) ==
    CASE T = "Perplex"  -> PerplexIsZeroDiv(m, z)
      [] T = "Infra"    -> InfraIsZeroDiv(m, z)
      [] T = "Cockle"   -> CockleIsZeroDiv(m, z)
      [] T = "Supra"    -> SupraIsZeroDiv(m, z)

Inv(T, m, z, y) ==
    CASE T = "Complex"  -> ComplexInv(m, z, y)
      [] T = "Perplex"  -> PerplexInv(m, z, y)
      [] T = "Infra"    -> InfraInv(m, z, y)
      [] T = "Hamilton" -> HamiltonInv(m, z, y)
      [] T = "Cockle"   -> CockleInv(m, z, y)
      [] T = "Supra"    -> SupraInv(m, z, y)

Quo(T, m, z, x, y) ==
    CASE T = "Complex"  -> ComplexQuo(m, z, x, y)
      [] T = "Perplex"  -> PerplexQuo(m, z, x, y)
      [] T = "Infra"    -> InfraQuo(m, z, x, y)

QuoL(T, m, z, x, y) ==
    CASE T = "Hamilton" -> HamiltonQuoL(m, z, x, y)
      [] T = "Cockle"   -> CockleQuoL(m, z, x, y)
      [] T = "Supra"    -> SupraQuoL(m, z, x, y)

QuoR(T, m, z, x, y) ==
    CASE T = "Hamilton" -> HamiltonQuoR(m, z, x, y)
      [] T = "Cockle"   -> CockleQuoR(m, z, x, y)
      [] T = "Supra"    -> SupraQuoR(m, z, x, y)

Commutator(T, m, z, x, y) ==
    CASE T = "Hamilton" -> HamiltonCommutator(m, z, x, y)
      [] T = "Cockle"   -> CockleCommutator(m, z, x, y)
      [] T = "Supra"    -> SupraCommutator(m, z, x, y)

CrossRatio(T, m, z, v, w, x, y) ==
    CASE T = "Complex"  -> ComplexCrossRatio(m, z, v, w, x, y)
      [] T = "Perplex"  -> PerplexCrossRatio(m, z, v, w, x, y)
      [] T = "Infra"    -> InfraCrossRatio(m, z, v, w, x, y)

CrossRatioL(T, m, z, v, w, x, y) ==
    CASE T = "Hamilton" -> HamiltonCrossRatioL(m, z, v, w, x, y)
      [] T = "Cockle"   -> CockleCrossRatioL(m, z, v, w, x, y)
      [] T = "Supra"    -> SupraCrossFloatioL(m, z, v, w, x, y)

CrossRatioR(T, m, z, v, w, x, y) ==
    CASE T = "Hamilton" -> HamiltonCrossRatioR(m, z, v, w, x, y)
      [] T = "Cockle"   -> CockleCrossRatioR(m, z, v, w, x, y)
      [] T = "Supra"    -> SupraCrossFloatioR(m, z, v, w, x, y)

Mobius(T, m, z, y, a, b, c, d) ==
    CASE T = "Complex"  -> ComplexMobius(m, z, y, a, b, c, d)
      [] T = "Perplex"  -> PerplexMobius(m, z, y, a, b, c, d)
      [] T = "Infra"    -> InfraMobius(m, z, y, a, b, c, d)

MobiusL(T, m, z, y, a, b, c, d) ==
    CASE T = "Hamilton" -> HamiltonMobiusL(m, z, y, a, b, c, d)
      [] T = "Cockle"   -> CockleMobiusL(m, z, y, a, b, c, d)
      [] T = "Supra"    -> SupraMobiusL(m, z, y, a, b, c, d)

MobiusR(T, m, z, y, a, b, c, d) ==
    CASE T = "Hamilton" -> HamiltonMobiusR(m, z, y, a, b, c, d)
      [] T = "Cockle"   -> CockleMobiusR(m, z, y, a, b, c, d)
      [] T = "Supra"    -> SupraMobiusR(m, z, y, a, b, c, d)

\* A call z.Op(args...) made on the constructed objects: the objects' cells
\* after the call (or at the panic), and what the call returned.
\* New<T>(a, b) and New<T>(a, b, c, d): z := new(T), a Copy of each big.Float
\* into z's component, return z; the returned pointer is left in ret.

\* Mutant: the returned object is the storage of a and b themselves.
NewComplexShared(m0, a, b) == Return(m0, a)

NewComplex(m0, a, b) ==
    Only({LET z  == Top(m)
              m1 == FloatCopy(New(m, 2), Fl(z), a)
          IN  Return(FloatCopy(m1, Fr(z), b), z) : m \in {m0}})

NewPerplex(m0, a, b) ==
    Only({LET z  == Top(m)
              m1 == FloatCopy(New(m, 2), Fl(z), a)
          IN  Return(FloatCopy(m1, Fr(z), b), z) : m \in {m0}})

NewInfra(m0, a, b) ==
    Only({LET z  == Top(m)
              m1 == FloatCopy(New(m, 2), Fl(z), a)
          IN  Return(FloatCopy(m1, Fr(z), b), z) : m \in {m0}})

NewHamilton(m0, a, b, c, d) ==
    Only({LET z  == Top(m)
              m1 == FloatCopy(New(m, 4), Fl(Hl(z)), a)
              m2 == FloatCopy(m1, Fr(Hl(z)), b)
              m3 == FloatCopy(m2, Fl(Hr(z)), c)
          IN  Return(FloatCopy(m3, Fr(Hr(z)), d), z) : m \in {m0}})

NewCockle(m0, a, b, c, d) ==
    Only({LET z  == Top(m)
              m1 == FloatCopy(New(m, 4), Fl(Hl(z)), a)
              m2 == FloatCopy(m1, Fr(Hl(z)), b)
              m3 == FloatCopy(m2, Fl(Hr(z)), c)
          IN  Return(FloatCopy(m3, Fr(Hr(z)), d), z) : m \in {m0}})

NewSupra(m0, a, b, c, d) ==
    Only({LET z  == Top(m)
              m1 == FloatCopy(New(m, 4), Fl(Hl(z)), a)
              m2 == FloatCopy(m1, Fr(Hl(z)), b)
              m3 == FloatCopy(m2, Fl(Hr(z)), c)
          IN  Return(FloatCopy(m3, Fr(Hr(z)), d), z) : m \in {m0}})

\* New<T> of the big.Floats at s, s + 1, ...
NewOf(T, m, s) ==
    CASE T = "Complex"  -> NewComplex(m, s, s + 1)
      [] T = "Perplex"  -> NewPerplex(m, s, s + 1)
      [] T = "Infra"    -> NewInfra(m, s, s + 1)
      [] T = "Hamilton" -> NewHamilton(m, s, s + 1, s + 2, s + 3)
      [] T = "Cockle"   -> NewCockle(m, s, s + 1, s + 2, s + 3)
      [] T = "Supra"    -> NewSupra(m, s, s + 1, s + 2, s + 3)

Equals(T, m, z, y) ==
    CASE T = "Complex"  -> ComplexEquals(m, z, y)
      [] T = "Perplex"  -> PerplexEquals(m, z, y)
      [] T = "Infra"    -> InfraEquals(m, z, y)
      [] T = "Hamilton" -> HamiltonEquals(m, z, y)
      [] T = "Cockle"   -> CockleEquals(m, z, y)
      [] T = "Supra"    -> SupraEquals(m, z, y)

Copy(T, m, z, y) ==
    CASE T = "Complex"  -> ComplexCopy(m, z, y)
      [] T = "Perplex"  -> PerplexCopy(m, z, y)
      [] T = "Infra"    -> InfraCopy(m, z, y)
      [] T = "Hamilton" -> HamiltonCopy(m, z, y)
      [] T = "Cockle"   -> CockleCopy(m, z, y)
      [] T = "Supra"    -> SupraCopy(m, z, y)

\* for i := 0; i < n; i++ { p.Mul(p, z); if p.Equals(zero) { return true } }
\* return false
RECURSIVE CockleIsNilpotentLoop(_, _, _, _, _, _)
CockleIsNilpotentLoop(m0, zero, p, z, i, n) ==
    IF ~(i < n)
    THEN Return(m0, FALSE)
    ELSE Only({IF CockleEquals(m, p, zero).ret
               THEN Return(m, TRUE)
               ELSE CockleIsNilpotentLoop(m, zero, p, z, i + 1, n)
               : m \in {CockleMul(m0, p, p, z)}})

\* Mutant: the loop starts at i = 1.
CockleIsNilpotentShort(m0, z, n) ==
    Only({LET zero      == Top(m)
              zeroFloat == Top(m) + 4
              n1        == New(New(m, 4), 1)
          IN  IF CockleEquals(n1, z, zero).ret
              THEN Return(n1, TRUE)
              ELSE LET one == Top(n1)
                       n2  == Store(New(n1, 1), one, Int2Float(1))
                       p   == Top(n2)
                       n3  == NewCockle(n2, one, zeroFloat, zeroFloat, zeroFloat)
                   IN  CockleIsNilpotentLoop(n3, zero, p, z, 1, n) : m \in {m0}})

CockleIsNilpotent(m0, z, n) ==
    Only({LET zero      == Top(m)
              zeroFloat == Top(m) + 4
              n1        == New(New(m, 4), 1)
          IN  IF CockleEquals(n1, z, zero).ret
              THEN Return(n1, TRUE)
              ELSE LET one == Top(n1)
                       n2  == Store(New(n1, 1), one, Int2Float(1))
                       p   == Top(n2)
                       n3  == NewCockle(n2, one, zeroFloat, zeroFloat, zeroFloat)
                   IN  CockleIsNilpotentLoop(n3, zero, p, z, 0, n) : m \in {m0}})

\* Mutant: a sign of 0 gives the negative right half too.
PerplexIdempotentNonPositive(m0, z, sign) ==
    Only({IF sign <= 0
          THEN Store(Store(m, Fl(z), <<1, 2>>), Fr(z), <<-1, 2>>)
          ELSE Store(Store(m, Fl(z), <<1, 2>>), Fr(z), <<1, 2>>) : m \in {m0}})

\* z.l.SetFloat64(0.5), then z.r.SetFloat64(-0.5) for a negative sign and
\* z.r.SetFloat64(0.5) otherwise; 0.5 is the float64 1/2 exactly.
PerplexIdempotent(m0, z, sign) ==
    Only({LET m1 == Store(m, Fl(z), <<1, 2>>)
          IN  IF sign < 0
              THEN Store(m1, Fr(z), <<-1, 2>>)
              ELSE Store(m1, Fr(z), <<1, 2>>) : m \in {m0}})

Finish(m0, c, r) ==
    /\ \E m \in {m0} :
           /\ heap' = SubSeq(m.cell, 1, Len(heap))
           /\ panicked' = m.panic
    /\ pre' = heap
    /\ call' = c
    /\ ret' = r
    /\ alg' = alg

Called(op, z, args) == [op |-> op, z |-> z, args |-> args, k |-> Zero]

\* z.Op(y) and z.Op(x, y) on the constructed objects, Op being the method of
\* the objects' type; the types of Types have the method.
Call1(Op(_, _, _, _), name) ==
    /\ call = NoCall
    /\ Len(heap) = 3 * W(alg)
    /\ \E z \in Regs, y \in InputRegs :
           Finish(Op(alg, Mem(heap), Addr(z), Addr(y)), Called(name, z, <<y>>), <<>>)

Call2(Op(_, _, _, _, _), name, Types) ==
    /\ call = NoCall
    /\ Len(heap) = 3 * W(alg)
    /\ alg \in Types
    /\ \E z \in Regs, x, y \in InputRegs :
           Finish(Op(alg, Mem(heap), Addr(z), Addr(x), Addr(y)), Called(name, z, <<x, y>>), <<>>)

\* z.Scal(y, a), a being a big.Float built from a drawn scalar.
CallScal(Op(_, _, _, _, _)) ==
    /\ call = NoCall
    /\ Len(heap) = 3 * W(alg)
    /\ \E z \in Regs, y \in InputRegs, k \in Scalars(alg) :
           LET a  == Top(Mem(heap))
               m0 == Store(New(Mem(heap), 1), a, k)
           IN  \E m \in {Op(alg, m0, Addr(z), Addr(y), a)} :
                   Finish(m, [op |-> "Scal", z |-> z, args |-> <<y>>, k |-> k], m.cell[a])

\* z.Quad(): the address of the returned *big.Float and the scalar in it.
CallQuad(Op(_, _, _)) ==
    /\ call = NoCall
    /\ Len(heap) = 3 * W(alg)
    /\ \E z \in InputRegs :
           \E m \in {Op(alg, Mem(heap), Addr(z))} :
               Finish(m, Called("Quad", z, <<>>), [addr |-> m.ret, val |-> m.cell[m.ret]])

\* z.IsZeroDiv(): the returned bool.
CallIsZeroDiv(Op(_, _, _)) ==
    /\ call = NoCall
    /\ Len(heap) = 3 * W(alg)
    /\ alg \notin {"Complex", "Hamilton"}
    /\ \E z \in InputRegs :
           \E m \in {Op(alg, Mem(heap), Addr(z))} :
               Finish(m, Called("IsZeroDiv", z, <<>>), m.ret)

\* z.Equals(y): the returned bool.
CallEquals(Op(_, _, _, _)) ==
    /\ call = NoCall
    /\ Len(heap) = 3 * W(alg)
    /\ \E z, y \in InputRegs :
           \E m \in {Op(alg, Mem(heap), Addr(z), Addr(y))} :
               Finish(m, Called("Equals", z, <<y>>), m.ret)

\* z.IsNilpotent(n) on a Cockle: the returned bool.  The int n is recorded in
\* the call's k as n/1.
MaxN == 3

Steps == (-1)..MaxN

CallIsNilpotent(Op(_, _, _)) ==
    /\ call = NoCall
    /\ Len(heap) = 3 * W(alg)
    /\ alg = "Cockle"
    /\ \E z \in InputRegs, n \in Steps :
           \E m \in {Op(Mem(heap), Addr(z), n)} :
               Finish(m, [Called("IsNilpotent", z, <<>>) EXCEPT !.k = Int2Float(n)], m.ret)

\* z.Idempotent(sign) on a Perplex.  The int sign is recorded in the call's k
\* as sign/1.
Signs == {-1, 0, 1}

CallIdempotent(Op(_, _, _)) ==
    /\ call = NoCall
    /\ Len(heap) = 3 * W(alg)
    /\ alg = "Perplex"
    /\ \E z \in Regs, sign \in Signs :
           Finish(Op(Mem(heap), Addr(z), sign),
                  [Called("Idempotent", z, <<>>) EXCEPT !.k = Int2Float(sign)], <<>>)

DoNeg == Call1(Neg, "Neg")

DoConj == Call1(Conj, "Conj")

DoScal == CallScal(Scal)

DoAdd == Call2(Add, "Add", Algebras)

DoSub == Call2(Sub, "Sub", Algebras)

DoMul == Call2(Mul, "Mul", Algebras)

DoQuad == CallQuad(Quad)

DoIsZeroDiv == CallIsZeroDiv(IsZeroDiv)

DoEquals == CallEquals(Equals)

DoIsNilpotent == CallIsNilpotent(CockleIsNilpotent)

DoIdempotent == CallIdempotent(PerplexIdempotent)

DoInv == Call1(Inv, "Inv")

DoQuo == Call2(Quo, "Quo", Rank1)

DoQuoL == Call2(QuoL, "QuoL", Rank2)

DoQuoR == Call2(QuoR, "QuoR", Rank2)

DoCommutator == Call2(Commutator, "Commutator", Rank2)

Next ==
    \/ DoNeg
    \/ DoConj
    \/ DoScal
    \/ DoAdd
    \/ DoSub
    \/ DoMul
    \/ DoQuad
    \/ DoIsZeroDiv
    \/ DoEquals
    \/ DoIsNilpotent
    \/ DoIdempotent
    \/ DoInv
    \/ DoQuo
    \/ DoQuoL
    \/ DoQuoR
    \/ DoCommutator

Spec == Init /\ [][Next]_vars

---------------------------------------------------------------------------
\* The transforms take four or five objects: objects 1 to 5 are built from
\* drawn unit values, object 6 is new(T).

TInputRegs == 1..5
TRegs == 1..6

\* Zero and the first MaxUnits basis elements.
UnitVals(a) ==
    {ZeroVal(a)} \cup {[i \in 1..W(a) |-> IF i = j THEN Int2Float(1) ELSE Zero] :
                          j \in {u \in 1..W(a) : u <= MaxUnits}}

InitT ==
    /\ alg \in Algebras
    /\ \E v \in [TInputRegs -> UnitVals(alg)] :
           heap = v[1] \o v[2] \o v[3] \o v[4] \o v[5] \o ZeroVal(alg)
    /\ pre = heap
    /\ call = NoCall
    /\ panicked = FALSE
    /\ ret = <<>>

\* z.Op(v, w, x, y) on objects 1 to 4 and z.Op(y, a, b, c, d) on objects 1 to
\* 5, the receiver being any object.
Call4(Op(_, _, _, _, _, _, _), name, Types) ==
    /\ call = NoCall
    /\ Len(heap) = 6 * W(alg)
    /\ alg \in Types
    /\ \E z \in TRegs :
           Finish(Op(alg, Mem(heap), Addr(z), Addr(1), Addr(2), Addr(3), Addr(4)),
                  Called(name, z, <<1, 2, 3, 4>>), <<>>)

Call5(Op(_, _, _, _, _, _, _, _), name, Types) ==
    /\ call = NoCall
    /\ Len(heap) = 6 * W(alg)
    /\ alg \in Types
    /\ \E z \in TRegs :
           Finish(Op(alg, Mem(heap), Addr(z), Addr(1), Addr(2), Addr(3), Addr(4), Addr(5)),
                  Called(name, z, <<1, 2, 3, 4, 5>>), <<>>)

DoCrossRatio == Call4(CrossRatio, "CrossRatio", Rank1)

DoCrossRatioL == Call4(CrossRatioL, "CrossRatioL", Rank2)

DoCrossRatioR == Call4(CrossRatioR, "CrossRatioR", Rank2)

DoMobius == Call5(Mobius, "Mobius", Rank1)

DoMobiusL == Call5(MobiusL, "MobiusL", Rank2)

DoMobiusR == Call5(MobiusR, "MobiusR", Rank2)

NextT ==
    \/ DoCrossRatio
    \/ DoCrossRatioL
    \/ DoCrossRatioR
    \/ DoMobius
    \/ DoMobiusL
    \/ DoMobiusR

SpecT == InitT /\ [][NextT]_vars

\* Supra.Generate: each of the four components is big.NewFloat(rand.Float64()),
\* a value in [0, 1); the multiples of 1/MaxDen in that range are drawn.
\* Objects 1 and 2 are generated, object 3 is new(Supra).
MaxDen == 2

GenFloats == {Norm(k, MaxDen) : k \in 0..(MaxDen - 1)}

InitG ==
    /\ alg = "Supra"
    /\ \E v1, v2 \in [1..4 -> GenFloats] : heap = v1 \o v2 \o ZeroVal(alg)
    /\ pre = heap
    /\ call = NoCall
    /\ panicked = FALSE
    /\ ret = <<>>

NextG ==
    \/ DoQuad
    \/ DoIsZeroDiv

SpecG == InitG /\ [][NextG]_vars

\* Construction, then a later change.  Cells 1 to W are the caller's
\* big.Floats a, b (c, d), object 2 is y.  z is New<T>(a, b, ...) or
\* new(T).Copy(y); after it, a scalar is changed through its own big.Float
\* methods (a.Neg(a), a.Add(a, b)), or y or z is written by Neg or Mul.
InitN ==
    /\ alg \in Algebras
    /\ \E s, v \in Vals(alg) : heap = s \o v
    /\ pre = heap
    /\ call = NoCall
    /\ panicked = FALSE
    /\ ret = <<>>

Built == {"New", "Copy"}

\* The object register of the address p.
RegOf(p) == ((p - 1) \div W(alg)) + 1

FinishN(m0, c) ==
    /\ \E m \in {m0} :
           /\ heap' = SubSeq(m.cell, 1, IF c.op \in Built /\ c.z = 3 THEN 3 * W(alg)
                                                                      ELSE Len(heap))
           /\ panicked' = m.panic
    /\ pre' = heap
    /\ call' = c
    /\ ret' = <<>>
    /\ alg' = alg

CallNew(Op(_, _, _)) ==
    /\ call = NoCall
    /\ \E m \in {Op(alg, Mem(heap), 1)} :
           FinishN(m, Called("New", RegOf(m.ret), <<>>))

CallCopy(Op(_, _, _, _)) ==
    /\ call = NoCall
    /\ FinishN(Op(alg, New(Mem(heap), W(alg)), Addr(3), Addr(2)), Called("Copy", 3, <<2>>))

\* The call's z is the object written, its args the constructed object.
Later1(Op(_, _, _, _), name) ==
    /\ call.op \in Built
    /\ \E r \in {2, call.z} :
           FinishN(Op(alg, Mem(heap), Addr(r), Addr(r)), Called(name, r, <<call.z>>))

Later2(Op(_, _, _, _, _), name) ==
    /\ call.op \in Built
    /\ \E r \in {2, call.z} :
           FinishN(Op(alg, Mem(heap), Addr(r), Addr(r), Addr(2)), Called(name, r, <<call.z>>))

LaterFloat(Op(_, _, _, _), name) ==
    /\ call.op \in Built
    /\ \E a, b \in 1..W(alg) :
           FinishN(Op(Mem(heap), a, a, b), Called(name, 0, <<call.z>>))

FloatNegOf(m, z, x, y) == FloatNeg(m, z, x)

DoNew == CallNew(NewOf)

DoNewCopy == CallCopy(Copy)

DoLaterNeg == Later1(Neg, "LaterNeg")

DoLaterMul == Later2(Mul, "LaterMul")

DoScalarNeg == LaterFloat(FloatNegOf, "ScalarNeg")

DoScalarAdd == LaterFloat(FloatAdd, "ScalarAdd")

NextN ==
    \/ DoNew
    \/ DoNewCopy
    \/ DoLaterNeg
    \/ DoLaterMul
    \/ DoScalarNeg
    \/ DoScalarAdd

SpecN == InitN /\ [][NextN]_vars

\* The calls of Spec and of SpecT together: the primitives on the three
\* objects of Init, the transforms on the six of InitT.
InitA == Init \/ InitT

NextA ==
    \/ Next
    \/ NextT

SpecA == InitA /\ [][NextA]_vars


---------------------------------------------------------------------------
\* Properties.

\* The value of object r in the cells h.
Val(h, r) == SubSeq(h, Addr(r), Addr(r) + W(alg) - 1)

ArgSet == {call.args[i] : i \in 1..Len(call.args)}

\* The last call again, on the pre-call objects, with a receiver that is a
\* new object: the memory it leaves, and the receiver's value in it.
FreshRun ==
    LET f  == Top(Mem(pre))
        m0 == New(Mem(pre), W(alg))
        a  == Top(m0)
        mk == Store(New(m0, 1), a, call.k)
        A(i) == Addr(call.args[i])
    IN  CASE call.op = "Neg"  -> Neg(alg, m0, f, A(1))
          [] call.op = "Conj" -> Conj(alg, m0, f, A(1))
          [] call.op = "Scal" -> Scal(alg, mk, f, A(1), a)
          [] call.op = "Add"  -> Add(alg, m0, f, A(1), A(2))
          [] call.op = "Sub"  -> Sub(alg, m0, f, A(1), A(2))
          [] call.op = "Mul"  -> Mul(alg, m0, f, A(1), A(2))
          [] call.op = "Inv"  -> Inv(alg, m0, f, A(1))
          [] call.op = "Quo"  -> Quo(alg, m0, f, A(1), A(2))
          [] call.op = "QuoL" -> QuoL(alg, m0, f, A(1), A(2))
          [] call.op = "QuoR" -> QuoR(alg, m0, f, A(1), A(2))
          [] call.op = "Commutator" -> Commutator(alg, m0, f, A(1), A(2))
          [] call.op = "CrossRatio"  -> CrossRatio(alg, m0, f, A(1), A(2), A(3), A(4))
          [] call.op = "CrossRatioL" -> CrossRatioL(alg, m0, f, A(1), A(2), A(3), A(4))
          [] call.op = "CrossRatioR" -> CrossRatioR(alg, m0, f, A(1), A(2), A(3), A(4))
          [] call.op = "Mobius"  -> Mobius(alg, m0, f, A(1), A(2), A(3), A(4), A(5))
          [] call.op = "MobiusL" -> MobiusL(alg, m0, f, A(1), A(2), A(3), A(4), A(5))
          [] call.op = "MobiusR" -> MobiusR(alg, m0, f, A(1), A(2), A(3), A(4), A(5))

FreshVal == SubSeq(FreshRun.cell, Len(pre) + 1, Len(pre) + W(alg))

\* The algebra's signs: u.u = Eps for the rank-1 unit (of the base, for a
\* rank-2 algebra), Sigma for the doubling.
Eps ==
    CASE alg \in {"Complex", "Hamilton", "Cockle"} -> -1
      [] alg = "Perplex" -> 1
      [] alg \in {"Infra", "Supra"} -> 0

Sigma ==
    CASE alg = "Hamilton" -> -1
      [] alg = "Cockle" -> 1
      [] alg = "Supra" -> 0

\* Pair arithmetic over exact scalars, as the formulas are written.
PAdd(p, q)  == <<RatAdd(p[1], q[1]), RatAdd(p[2], q[2])>>
PScal(k, p) == <<RatMul(Int2Float(k), p[1]), RatMul(Int2Float(k), p[2])>>
PConj(p)    == <<p[1], RatNeg(p[2])>>
PMul(p, q)  ==
    <<RatAdd(RatMul(p[1], q[1]), RatMul(Int2Float(Eps), RatMul(p[2], q[2]))),
      RatAdd(RatMul(p[1], q[2]), RatMul(p[2], q[1]))>>

Doubling(x, y) ==
    LET a == SubSeq(x, 1, 2)
        b == SubSeq(x, 3, 4)
        c == SubSeq(y, 1, 2)
        d == SubSeq(y, 3, 4)
    IN  PAdd(PMul(a, c), PScal(Sigma, PMul(PConj(d), b)))
            \o PAdd(PMul(d, a), PMul(b, PConj(c)))

\* C1: in Hamilton, Cockle and Supra, Mul(x, y) into a receiver that is
\* neither x nor y leaves l = a.c + Sigma.Conj(d).b and r = d.a + b.Conj(c),
\* the products being the base algebra's.
C1_Doubling ==
    (call.op = "Mul" /\ alg \in Rank2 /\ call.z \notin ArgSet)
        => /\ ~panicked
           /\ Val(heap, call.z) = Doubling(Val(pre, call.args[1]), Val(pre, call.args[2]))

C1_Witness ==
    /\ call.op = "Mul" /\ alg = "Cockle" /\ call.z \notin ArgSet
    /\ call.args[1] # call.args[2]
    /\ SubSeq(Val(heap, call.z), 1, 2)
           # PMul(SubSeq(Val(pre, call.args[1]), 1, 2), SubSeq(Val(pre, call.args[2]), 1, 2))
    /\ Val(heap, call.z) = Doubling(Val(pre, call.args[1]), Val(pre, call.args[2]))

\* C2: in Complex, Perplex and Infra, Mul(x, y) leaves l = a.c + Eps.b.d and
\* r = a.d + b.c.
C2_Rank1Product ==
    (call.op = "Mul" /\ alg \in Rank1)
        => /\ ~panicked
           /\ Val(heap, call.z) = PMul(Val(pre, call.args[1]), Val(pre, call.args[2]))

C2_Witness ==
    /\ call.op = "Mul" /\ alg = "Perplex" /\ call.z \notin ArgSet
    /\ Val(pre, call.args[1])[2] # Zero /\ Val(pre, call.args[2])[2] # Zero
    /\ Val(heap, call.z) = PMul(Val(pre, call.args[1]), Val(pre, call.args[2]))

\* The receiver is the same object as an input.
Aliased == call.z \in ArgSet

\* The inputs are different objects.
Distinct == \A i, j \in 1..Len(call.args) : call.args[i] = call.args[j] => i = j

Primitives == {"Add", "Sub", "Neg", "Conj", "Scal", "Mul", "Inv"}

Quotients == {"Quo", "QuoL", "QuoR"}

Transforms == {"CrossRatio", "CrossRatioL", "CrossRatioR", "Mobius", "MobiusL", "MobiusR"}

\* C3: Add, Sub, Neg, Conj, Scal, Mul and Inv with a receiver that is one or
\* both of the inputs leave in it the value the same call computes from the
\* pre-call values into a new receiver (and fail when that call fails).
C3_AliasPrimitive ==
    (call.op \in Primitives /\ Aliased)
        => /\ panicked = FreshRun.panic
           /\ ~panicked => Val(heap, call.z) = FreshVal

C3_Witness ==
    /\ call.op = "Mul" /\ alg = "Hamilton"
    /\ call.args = <<1, 2>> /\ call.z = 1
    /\ ~panicked
    /\ Val(heap, 1) # Val(pre, 1)
    /\ Val(heap, 1) = FreshVal
    /\ FreshVal = Doubling(Val(pre, 1), Val(pre, 2))

\* C4: Quo, QuoL and QuoR with an invertible y and a receiver that is x or y
\* leave in it the quotient the same call computes into a new receiver.
C4_AliasQuotient ==
    (call.op \in Quotients /\ Aliased /\ Distinct /\ ~FreshRun.panic)
        => /\ ~panicked
           /\ Val(heap, call.z) = FreshVal

\* C5: Commutator with a receiver that is x or y leaves in it
\* Mul(x, y) - Mul(y, x) of the pre-call values, as with a new receiver.
C5_AliasCommutator ==
    (call.op = "Commutator" /\ Aliased /\ Distinct)
        => /\ ~panicked
           /\ Val(heap, call.z) = FreshVal

\* C6: a cross-ratio or a Moebius transform with a receiver that is one of
\* the inputs, no inverse failing, leaves in it the value the same call
\* computes into a new receiver.
C6_AliasTransform ==
    (call.op \in Transforms /\ Aliased /\ ~panicked /\ ~FreshRun.panic)
        => Val(heap, call.z) = FreshVal

\* The quadrance and the zero divisors, as the formulas are written.
Sq(x) == RatMul(x, x)

Quad1(p) == RatSub(Sq(p[1]), RatMul(Int2Float(Eps), Sq(p[2])))

QuadOf(v) ==
    IF alg \in Rank1 THEN Quad1(v)
    ELSE RatSub(Quad1(SubSeq(v, 1, 2)), RatMul(Int2Float(Sigma), Quad1(SubSeq(v, 3, 4))))

ZeroDivisor(v) ==
    CASE alg = "Perplex" -> v[1] = v[2] \/ v[1] = RatNeg(v[2])
      [] alg = "Infra"   -> v[1] = Zero
      [] alg = "Cockle"  -> Quad1(SubSeq(v, 1, 2)) = Quad1(SubSeq(v, 3, 4))
      [] alg = "Supra"   -> v[1] = Zero

NotInvertible(v) ==
    IF alg \in {"Complex", "Hamilton"} THEN v = ZeroVal(alg) ELSE ZeroDivisor(v)

\* C7: Inv(y) panics, every object keeping its pre-call value, exactly when y
\* is zero (Complex, Hamilton) or a zero divisor (Perplex, Infra, Cockle,
\* Supra); otherwise it returns.
C7_InvFails ==
    call.op = "Inv"
        => /\ panicked <=> NotInvertible(Val(pre, call.args[1]))
           /\ panicked => heap = pre

C7_Witness ==
    /\ call.op = "Inv" /\ alg = "Cockle"
    /\ Aliased
    /\ Val(pre, call.z) # ZeroVal(alg)
    /\ panicked
    /\ heap = pre

\* The values of Conj(y), Quad(y) and Mul(x, y) in a memory of their own.
ConjVal(y) == Conj(alg, Mem(y \o ZeroVal(alg)), W(alg) + 1, 1).cell

QuadVal(y) == LET m == Quad(alg, Mem(y), 1) IN m.cell[m.ret]

MulVal(x, y) ==
    SubSeq(Mul(alg, Mem(x \o y \o ZeroVal(alg)), 2 * W(alg) + 1, 1, W(alg) + 1).cell,
           2 * W(alg) + 1, 3 * W(alg))

One == [i \in 1..W(alg) |-> IF i = 1 THEN Int2Float(1) ELSE Zero]

\* C8: where Inv(y) returns, each component of the result is the component of
\* Conj(y) divided by Quad(y), and the result times y, on either side, is one.
C8_InvValue ==
    (call.op = "Inv" /\ ~panicked)
        => LET y == Val(pre, call.args[1])
               v == Val(heap, call.z)
           IN  /\ \A i \in 1..W(alg) : v[i] = RatQuo(ConjVal(y)[W(alg) + i], QuadVal(y))
               /\ MulVal(y, v) = One
               /\ MulVal(v, y) = One

C8_Witness ==
    /\ call.op = "Inv" /\ alg = "Hamilton" /\ ~panicked
    /\ QuadVal(Val(pre, call.args[1])) = Int2Float(3)
    /\ Val(heap, call.z)[4] # Zero
    /\ MulVal(Val(pre, call.args[1]), Val(heap, call.z)) = One

\* C9: IsZeroDiv() returns whether a = b or a = -b (Perplex), a = 0 (Infra),
\* Quad(A) = Quad(B) (Cockle), A.l = 0 (Supra); it does not panic and changes
\* no object.
C9_IsZeroDiv ==
    call.op = "IsZeroDiv"
        => /\ ~panicked
           /\ heap = pre
           /\ ret = ZeroDivisor(Val(pre, call.z))

C9_Witness ==
    /\ call.op = "IsZeroDiv" /\ alg = "Perplex"
    /\ Val(pre, call.z)[1] # Val(pre, call.z)[2]
    /\ Val(pre, call.z)[1] = RatNeg(Val(pre, call.z)[2])
    /\ ret = TRUE
    /\ heap = pre

\* C10: Quad() returns, in a big.Float that is no cell of an object, a.a + b.b
\* (Complex), a.a - b.b (Perplex), a.a (Infra), Quad(A) + Quad(B) (Hamilton),
\* Quad(A) - Quad(B) (Cockle), Quad(A) (Supra); it changes no object.
C10_Quad ==
    call.op = "Quad"
        => /\ ~panicked
           /\ heap = pre
           /\ ret.val = QuadOf(Val(pre, call.z))
           /\ ret.addr > Len(pre)

C10_Witness ==
    /\ call.op = "Quad" /\ alg = "Cockle"
    /\ ret.val = Int2Float(-2)
    /\ ret.val = QuadOf(Val(pre, call.z))
    /\ heap = pre

\* Inv(y) in a memory of its own: the memory it leaves, and its value.
InvRun(y) == Inv(alg, Mem(y \o ZeroVal(alg)), W(alg) + 1, 1)

InvVal(y) == SubSeq(InvRun(y).cell, W(alg) + 1, 2 * W(alg))

\* C11: Quo(x, y) and QuoR(x, y) are Mul(x, Inv(y)) and QuoL(x, y) is
\* Mul(Inv(y), x) in a receiver that is neither x nor y; a quotient panics
\* exactly when Inv(y) does.
C11_Quotient ==
    call.op \in Quotients
        => LET x == Val(pre, call.args[1])
               y == Val(pre, call.args[2])
           IN  /\ panicked = InvRun(y).panic
               /\ (~panicked /\ ~Aliased)
                      => Val(heap, call.z) = IF call.op = "QuoL" THEN MulVal(InvVal(y), x)
                                             ELSE MulVal(x, InvVal(y))

C11_Witness ==
    /\ call.op = "QuoL" /\ alg = "Hamilton" /\ ~Aliased /\ ~panicked
    /\ MulVal(InvVal(Val(pre, call.args[2])), Val(pre, call.args[1]))
           # MulVal(Val(pre, call.args[1]), InvVal(Val(pre, call.args[2])))
    /\ Val(heap, call.z) = MulVal(InvVal(Val(pre, call.args[2])), Val(pre, call.args[1]))

\* The values of Sub(x, y) and Add(x, y) in a memory of their own.
SubVal(x, y) ==
    SubSeq(Sub(alg, Mem(x \o y \o ZeroVal(alg)), 2 * W(alg) + 1, 1, W(alg) + 1).cell,
           2 * W(alg) + 1, 3 * W(alg))

AddVal(x, y) ==
    SubSeq(Add(alg, Mem(x \o y \o ZeroVal(alg)), 2 * W(alg) + 1, 1, W(alg) + 1).cell,
           2 * W(alg) + 1, 3 * W(alg))

\* The cross-ratios as the products are written, taken left to right.
CrossL(v, w, x, y) ==
    MulVal(MulVal(MulVal(InvVal(SubVal(w, x)), SubVal(v, x)), InvVal(SubVal(v, y))), SubVal(w, y))

CrossR(v, w, x, y) ==
    MulVal(MulVal(MulVal(SubVal(v, x), InvVal(SubVal(w, x))), SubVal(w, y)), InvVal(SubVal(v, y)))

CrossRatios == {"CrossRatio", "CrossRatioL", "CrossRatioR"}

\* C12: into a receiver that is no input, CrossRatio and CrossRatioL leave
\* ((Inv(w-x).(v-x)).Inv(v-y)).(w-y) and CrossRatioR leaves
\* (((v-x).Inv(w-x)).(w-y)).Inv(v-y); the call panics exactly when Inv(w-x)
\* or Inv(v-y) does.
C12_CrossRatio ==
    (call.op \in CrossRatios /\ ~Aliased)
        => LET v == Val(pre, call.args[1])
               w == Val(pre, call.args[2])
               x == Val(pre, call.args[3])
               y == Val(pre, call.args[4])
           IN  /\ panicked = (InvRun(SubVal(w, x)).panic \/ InvRun(SubVal(v, y)).panic)
               /\ ~panicked
                      => Val(heap, call.z) = IF call.op = "CrossRatioR" THEN CrossR(v, w, x, y)
                                             ELSE CrossL(v, w, x, y)

C12_Witness ==
    /\ call.op = "CrossRatioL" /\ alg = "Hamilton" /\ call.z = 6 /\ ~panicked
    /\ CrossL(Val(pre, 1), Val(pre, 2), Val(pre, 3), Val(pre, 4))
           # CrossR(Val(pre, 1), Val(pre, 2), Val(pre, 3), Val(pre, 4))
    /\ Val(heap, 6) = CrossL(Val(pre, 1), Val(pre, 2), Val(pre, 3), Val(pre, 4))

\* The Moebius transforms as the products are written.
MobL(y, a, b, c, d) ==
    MulVal(InvVal(AddVal(MulVal(y, c), d)), AddVal(MulVal(y, a), b))

MobR(y, a, b, c, d) ==
    MulVal(AddVal(MulVal(a, y), b), InvVal(AddVal(MulVal(c, y), d)))

Mobiuses == {"Mobius", "MobiusL", "MobiusR"}

\* C13: into a new receiver, MobiusL leaves Mul(Inv(y.c + d), y.a + b) and
\* Mobius and MobiusR leave Mul(a.y + b, Inv(c.y + d)); the call panics
\* exactly when Inv of the denominator does.
C13_Mobius ==
    (call.op \in Mobiuses /\ ~Aliased)
        => LET y == Val(pre, call.args[1])
               a == Val(pre, call.args[2])
               b == Val(pre, call.args[3])
               c == Val(pre, call.args[4])
               d == Val(pre, call.args[5])
           IN  /\ panicked = IF call.op = "MobiusL" THEN InvRun(AddVal(MulVal(y, c), d)).panic
                             ELSE InvRun(AddVal(MulVal(c, y), d)).panic
               /\ ~panicked
                      => Val(heap, call.z) = IF call.op = "MobiusL" THEN MobL(y, a, b, c, d)
                                             ELSE MobR(y, a, b, c, d)

C13_Witness ==
    /\ call.op = "MobiusL" /\ alg = "Cockle" /\ call.z = 6 /\ ~panicked
    /\ MobL(Val(pre, 1), Val(pre, 2), Val(pre, 3), Val(pre, 4), Val(pre, 5))
           # MobR(Val(pre, 1), Val(pre, 2), Val(pre, 3), Val(pre, 4), Val(pre, 5))
    /\ Val(heap, 6) = MobL(Val(pre, 1), Val(pre, 2), Val(pre, 3), Val(pre, 4), Val(pre, 5))

\* The value of Conj(y).
ConjOf(y) == SubSeq(ConjVal(y), W(alg) + 1, 2 * W(alg))

\* C14: Conj(Mul(x, y)) = Mul(Conj(y), Conj(x)) in all six algebras.
C14_ConjAntiAutomorphism ==
    call.op = "Mul"
        => /\ ~panicked
           /\ ConjOf(Val(heap, call.z))
                  = MulVal(ConjOf(Val(pre, call.args[2])), ConjOf(Val(pre, call.args[1])))

C14_Witness ==
    /\ call.op = "Mul" /\ alg = "Hamilton" /\ ~Aliased
    /\ MulVal(ConjOf(Val(pre, call.args[2])), ConjOf(Val(pre, call.args[1])))
           # MulVal(ConjOf(Val(pre, call.args[1])), ConjOf(Val(pre, call.args[2])))
    /\ ConjOf(Val(heap, call.z))
           = MulVal(ConjOf(Val(pre, call.args[2])), ConjOf(Val(pre, call.args[1])))

\* The rank-2 units in Cartesian order: Unit(2), Unit(3), Unit(4) are i, j, k
\* (Hamilton), i, t, u (Cockle) and alpha, beta, gamma (Supra).
Unit(j) == [i \in 1..W(alg) |-> IF i = j THEN Int2Float(1) ELSE Zero]

\* s times Unit(j).
Signed(s, j) == [i \in 1..W(alg) |-> IF i = j THEN Int2Float(s) ELSE Zero]

\* The documented tables: row p, column q is <<s, j>> for
\* Unit(p + 1).Unit(q + 1) = s.Unit(j).
UnitTable ==
    CASE alg = "Hamilton" -> << << <<-1, 1>>, << 1, 4>>, <<-1, 3>> >>,
                                << <<-1, 4>>, <<-1, 1>>, << 1, 2>> >>,
                                << << 1, 3>>, <<-1, 2>>, <<-1, 1>> >> >>
      [] alg = "Cockle"   -> << << <<-1, 1>>, << 1, 4>>, <<-1, 3>> >>,
                                << <<-1, 4>>, << 1, 1>>, <<-1, 2>> >>,
                                << << 1, 3>>, << 1, 2>>, << 1, 1>> >> >>
      [] alg = "Supra"    -> << << << 0, 1>>, << 1, 4>>, << 0, 1>> >>,
                                << <<-1, 4>>, << 0, 1>>, << 0, 1>> >>,
                                << << 0, 1>>, << 0, 1>>, << 0, 1>> >> >>

\* C15: Mul of two structural units of Hamilton, Cockle or Supra is the entry
\* of the documented table.
C15_UnitTables ==
    (call.op = "Mul" /\ alg \in Rank2)
        => \A p, q \in 2..4 :
               (Val(pre, call.args[1]) = Unit(p) /\ Val(pre, call.args[2]) = Unit(q))
                   => Val(heap, call.z) = Signed(UnitTable[p - 1][q - 1][1], UnitTable[p - 1][q - 1][2])

C15_Witness ==
    /\ call.op = "Mul" /\ alg = "Cockle"
    /\ Val(pre, call.args[1]) = Unit(4)
    /\ Val(pre, call.args[2]) = Unit(3)
    /\ Val(heap, call.z) = Unit(2)

\* C16: Commutator(x, y) into a receiver that is neither x nor y is
\* Mul(x, y) - Mul(y, x), and it is not zero for the first two structural
\* units of Hamilton, Cockle and Supra.
C16_Commutator ==
    (call.op = "Commutator" /\ ~Aliased)
        => LET x == Val(pre, call.args[1])
               y == Val(pre, call.args[2])
           IN  /\ ~panicked
               /\ Val(heap, call.z) = SubVal(MulVal(x, y), MulVal(y, x))
               /\ (x = Unit(2) /\ y = Unit(3)) => Val(heap, call.z) # ZeroVal(alg)

C16_Witness ==
    /\ call.op = "Commutator" /\ alg = "Supra" /\ ~Aliased
    /\ Val(pre, call.args[1]) = Unit(2)
    /\ Val(pre, call.args[2]) = Unit(3)
    /\ Val(heap, call.z) = Signed(2, 4)

\* C17: a cross-ratio or Moebius transform that panics leaves the receiver
\* with its pre-call value.
C17_NoPartialResult ==
    (call.op \in Transforms /\ panicked) => Val(heap, call.z) = Val(pre, call.z)

\* x to the k-th power by the doubling product, the identity for k = 0.
RECURSIVE Power(_, _)
Power(x, k) == IF k = 0 THEN One ELSE Doubling(Power(x, k - 1), x)

\* C18: z.IsNilpotent(n) returns, leaves z as it was, and returns true exactly
\* when some power z^k with 1 <= k <= n is the zero value (so false for
\* n <= 0).
C18_IsNilpotent ==
    call.op = "IsNilpotent"
        => /\ ~panicked
           /\ heap = pre
           /\ ret = (\E k \in 1..call.k[1] : Power(Val(pre, call.z), k) = ZeroVal(alg))

\* C19: in Complex and Hamilton, Quad() is never negative, and it is zero only
\* for the zero value.
C19_QuadPositiveDefinite ==
    (call.op = "Quad" /\ alg \in {"Complex", "Hamilton"})
        => /\ ~panicked
           /\ RatCmp(ret.val, Zero) >= 0
           /\ ret.val = Zero => Val(pre, call.z) = ZeroVal(alg)

C19_Witness ==
    /\ call.op = "Quad" /\ alg = "Hamilton"
    /\ Val(pre, call.z) = <<Zero, Zero, Int2Float(1), Int2Float(1)>>
    /\ ret.val = Int2Float(2)

\* C20: for a Supra whose four components are each in [0, 1), Quad() is
\* strictly positive.
C20_SupraQuadPositive ==
    (/\ call.op = "Quad" /\ alg = "Supra"
     /\ \A i \in 1..4 : /\ RatCmp(Val(pre, call.z)[i], Zero) >= 0
                        /\ RatCmp(Val(pre, call.z)[i], Int2Float(1)) < 0)
        => RatCmp(ret.val, Zero) > 0

\* C21: in Complex, Perplex and Infra, z.Mul(x, y) leaves in z the product
\* Mul(y, x) of the operands taken in the other order.
C21_Rank1MulCommutative ==
    (call.op = "Mul" /\ alg \in Rank1)
        => /\ ~panicked
           /\ Val(heap, call.z)
                  = MulVal(Val(pre, call.args[2]), Val(pre, call.args[1]))

C21_Witness ==
    /\ call.op = "Mul" /\ alg = "Complex"
    /\ Val(pre, call.args[1]) = <<Int2Float(1), Int2Float(1)>>
    /\ Val(pre, call.args[2]) = <<Zero, Int2Float(1)>>
    /\ Val(heap, call.z) = <<Int2Float(-1), Int2Float(1)>>

\* C22: in every algebra the product z.Mul(x, y) leaves, multiplied by any
\* third value w, is the product of x by Mul(y, w).
C22_MulAssociative ==
    call.op = "Mul"
        => /\ ~panicked
           /\ \A w \in Vals(alg) :
                  MulVal(Val(heap, call.z), w)
                      = MulVal(Val(pre, call.args[1]), MulVal(Val(pre, call.args[2]), w))

C22_Witness ==
    /\ call.op = "Mul" /\ alg = "Hamilton"
    /\ Val(pre, call.args[1]) = Unit(2)
    /\ Val(pre, call.args[2]) = Unit(3)
    /\ Val(heap, call.z) = Unit(4)
    /\ MulVal(Val(heap, call.z), Unit(2)) = Unit(3)
    /\ MulVal(Unit(2), MulVal(Unit(3), Unit(2))) = Unit(3)

\* C23: with one the value whose real component is 1 and whose others are 0,
\* z.Mul(x, one) leaves x in z and z.Mul(one, y) leaves y, in every algebra.
C23_MulOne ==
    call.op = "Mul"
        => /\ Val(pre, call.args[2]) = One
                  => ~panicked /\ Val(heap, call.z) = Val(pre, call.args[1])
           /\ Val(pre, call.args[1]) = One
                  => ~panicked /\ Val(heap, call.z) = Val(pre, call.args[2])

C23_Witness ==
    /\ call.op = "Mul" /\ alg = "Cockle"
    /\ Val(pre, call.args[1]) = <<Zero, Int2Float(1), Int2Float(1), Int2Float(1)>>
    /\ Val(pre, call.args[2]) = One
    /\ Val(heap, call.z) = Val(pre, call.args[1])

\* z's objects other than r keep their pre-call cells.
OthersUnchanged(r) ==
    \A i \in 1..Len(pre) : (i < Addr(r) \/ i >= Addr(r) + W(alg)) => heap[i] = pre[i]

IsZeroDivVal(v) == IsZeroDiv(alg, Mem(v), 1).ret

\* C24: z.Idempotent(sign) leaves (1/2, -1/2) in z for a negative sign and
\* (1/2, 1/2) for any other, whatever z held; the value e it leaves satisfies
\* Mul(e, e) = e and e.IsZeroDiv().
C24_Idempotent ==
    call.op = "Idempotent"
        => LET e == Val(heap, call.z)
           IN  /\ ~panicked
               /\ e = IF call.k[1] < 0 THEN << <<1, 2>>, <<-1, 2>> >>
                                       ELSE << <<1, 2>>, <<1, 2>> >>
               /\ MulVal(e, e) = e
               /\ IsZeroDivVal(e)

C24_Witness ==
    /\ call.op = "Idempotent" /\ call.k[1] = 0
    /\ Val(pre, call.z) = <<Int2Float(1), Int2Float(-1)>>
    /\ Val(heap, call.z) = << <<1, 2>>, <<1, 2>> >>
    /\ MulVal(Val(heap, call.z), Val(heap, call.z)) = Val(heap, call.z)

\* The powers a claim about "every power" is checked for.
MaxPow == 4

\* x to the k-th power, k >= 1, by the algebra's Mul.
RECURSIVE MulPower(_, _)
MulPower(x, k) == IF k = 1 THEN x ELSE MulVal(MulPower(x, k - 1), x)

\* C25: for an Infra z, z.IsZeroDiv() is true exactly when Mul(z, z) is the
\* zero value, and when it is false no power of z is zero.
C25_InfraZeroDivNilpotent ==
    (call.op = "IsZeroDiv" /\ alg = "Infra")
        => LET z == Val(pre, call.z)
           IN  /\ ~panicked
               /\ ret = (MulVal(z, z) = ZeroVal(alg))
               /\ ~ret => \A k \in 1..MaxPow : MulPower(z, k) # ZeroVal(alg)

C25_Witness ==
    /\ call.op = "IsZeroDiv" /\ alg = "Infra"
    /\ Val(pre, call.z) = <<Zero, Int2Float(1)>>
    /\ ret = TRUE
    /\ MulVal(Val(pre, call.z), Val(pre, call.z)) = ZeroVal(alg)

\* C26: z = New<T>(a, b, ...) holds the scalars' values and z = new(T).Copy(y)
\* holds y's, with the scalars and y as they were; a later change of a scalar
\* or of y leaves z as it was, and a later write of z leaves the scalars and
\* y as they were.
C26_NoSharedScalars ==
    /\ call.op = "New"
           => /\ ~panicked
              /\ Val(heap, call.z) = SubSeq(pre, 1, W(alg))
              /\ SubSeq(heap, 1, Len(pre)) = pre
    /\ call.op = "Copy"
           => /\ ~panicked
              /\ Val(heap, call.z) = Val(pre, 2)
              /\ SubSeq(heap, 1, Len(pre)) = pre
    /\ call.op \in {"ScalarNeg", "ScalarAdd"}
           => Val(heap, call.args[1]) = Val(pre, call.args[1])
    /\ call.op \in {"LaterNeg", "LaterMul"}
           => /\ call.z = 2 => Val(heap, call.args[1]) = Val(pre, call.args[1])
              /\ call.z = call.args[1]
                     => SubSeq(heap, 1, 2 * W(alg)) = SubSeq(pre, 1, 2 * W(alg))

C26_Witness ==
    /\ call.op = "ScalarNeg" /\ alg = "Hamilton"
    /\ heap[1] = Int2Float(-1) /\ pre[1] = Int2Float(1)
    /\ Val(heap, call.args[1]) = Val(pre, call.args[1])
    /\ Val(heap, call.args[1])[1] = Int2Float(1)

Divisions == {"Inv", "Quo", "QuoL", "QuoR"}

\* C27: Inv, Quo, QuoL and QuoR panic exactly when the quadrance of the
\* divisor y is zero, so a component is only ever divided by a nonzero
\* quadrance.
C27_GuardIsQuadZero ==
    call.op \in Divisions
        => (panicked <=> QuadVal(Val(pre, call.args[Len(call.args)])) = Zero)

C27_Witness ==
    /\ call.op = "QuoL" /\ alg = "Cockle"
    /\ Val(pre, call.args[2]) = <<Int2Float(1), Zero, Int2Float(1), Zero>>
    /\ QuadVal(Val(pre, call.args[2])) = Zero
    /\ panicked

\* The value whose real component is q and whose others are zero.
Real(q) == [i \in 1..W(alg) |-> IF i = 1 THEN q ELSE Zero]

\* C28: the value z.Conj(y) leaves, multiplied by y on either side, is the
\* value whose real component is Quad(y) and whose others are zero.
C28_NormIdentity ==
    call.op = "Conj"
        => LET x == Val(pre, call.args[1])
               c == Val(heap, call.z)
           IN  /\ ~panicked
               /\ MulVal(x, c) = Real(QuadVal(x))
               /\ MulVal(c, x) = Real(QuadVal(x))

C28_Witness ==
    /\ call.op = "Conj" /\ alg = "Cockle"
    /\ Val(pre, call.args[1]) = <<Int2Float(1), Zero, Int2Float(1), Zero>>
    /\ IsZeroDivVal(Val(pre, call.args[1]))
    /\ Val(heap, call.z) = <<Int2Float(1), Zero, Int2Float(-1), Zero>>
    /\ MulVal(Val(pre, call.args[1]), Val(heap, call.z)) = ZeroVal(alg)

Writers ==
    {"Add", "Sub", "Neg", "Conj", "Scal", "Mul", "Commutator", "Inv", "Quo", "QuoL", "QuoR"}
        \cup Transforms

Readers == {"Quad", "Equals", "IsZeroDiv", "IsNilpotent"}

ArgsUnchanged == \A r \in ArgSet : Val(heap, r) = Val(pre, r)

\* C29: a call whose receiver is none of its arguments leaves every argument
\* (the scalar of Scal too) with its pre-call value, whether it returns or
\* panics; Quad, Equals, IsZeroDiv and IsNilpotent leave every object as it
\* was.
C29_InputsReadOnly ==
    /\ (call.op \in Writers /\ ~Aliased) => ArgsUnchanged
    /\ (call.op = "Scal" /\ ~Aliased) => ret = call.k
    /\ call.op \in Readers => heap = pre

C29_Witness ==
    /\ call.op = "MobiusL" /\ alg = "Hamilton" /\ ~Aliased
    /\ panicked
    /\ Val(heap, call.z) # Val(pre, call.z)
    /\ ArgsUnchanged

\* v.IsNilpotent(n) in a memory of its own.
IsNilpotentVal(v, n) == CockleIsNilpotent(Mem(v), 1, n).ret

\* C30: for a Cockle z, z.IsNilpotent(n) with n >= 2 is z.IsNilpotent(2), true
\* exactly when Mul(z, z) is the zero value; a true z.IsNilpotent(n) stays true
\* for every larger n; and a true z.IsNilpotent(n) with n >= 1 has
\* z.IsZeroDiv() true.
C30_NilpotentBySquare ==
    call.op = "IsNilpotent"
        => LET z == Val(pre, call.z)
               n == call.k[1]
           IN  /\ n >= 2 => /\ ret = IsNilpotentVal(z, 2)
                            /\ ret = (MulVal(z, z) = ZeroVal(alg))
               /\ ret => \A k \in n..(MaxN + 1) : IsNilpotentVal(z, k)
               /\ (n >= 1 /\ ret) => IsZeroDivVal(z)

C30_Witness ==
    /\ call.op = "IsNilpotent" /\ call.k[1] = 3
    /\ Val(pre, call.z) = <<Zero, Int2Float(1), Int2Float(1), Zero>>
    /\ ret = TRUE
    /\ IsNilpotentVal(Val(pre, call.z), 2)
    /\ ~IsNilpotentVal(Val(pre, call.z), 1)
    /\ IsZeroDivVal(Val(pre, call.z))


=============================================================================
